---- MODULE Spec2Model ----
(***************************************************************************)
(* A model of emotiw/dauphiya/ml.py: the `symbolic` compile-and-cache      *)
(* wrapper, the binary and Gaussian RBMs (persistent contrastive           *)
(* divergence), the SetRBM, the MLP layer stacks and the RNN.              *)
(*                                                                         *)
(* Every component has its own variables, its own initial predicate and    *)
(* its own specification (SpecSym, SpecRBM, SpecSet, SpecMLP, SpecRNN);    *)
(* the variables of the other components are parked at a fixed value.      *)
(*                                                                         *)
(* Arrays of reals are modelled in two ways.  Where a claim is about which *)
(* value a computation reads (the RBMs), a value is a record holding its   *)
(* shape, a version number and the expression (a node of the Theano graph) *)
(* that produced it, written over references <<name, version>> to the      *)
(* values it read.  Where a claim is about numbers (MLP, RNN), a value is  *)
(* an integer, or the string "nan" for a float NaN.                        *)
(***************************************************************************)
EXTENDS Integers, Sequences, FiniteSets, TLC

VARIABLES
    \* ---- symbolic(): per instance, the attributes set by the wrapper
    symAttrs,      \* [instance -> [attribute name -> compiled function]]
    symCompiles,   \* [instance -> [method -> number of theano.function calls]]
    symConcrete,   \* [instance -> [method -> number of concrete calls]]
    symLast,       \* the last call of a wrapped method and what it ran
    symCalls,      \* number of calls so far (bounded)
    \* ---- BinaryRBM / GaussianRBM: one model object
    rbmKind,       \* "binary" or "gaussian": the class of the object
    rbmCfg,        \* n_hiddens, K, epsilon, n_samples, epochs
    rbmW,          \* self._W       (shared variable: shape, version, def)
    rbmB,          \* self._b
    rbmC,          \* self._c
    rbmH,          \* self.h_samples: the fantasy particles
    rbmBit,        \* bit_i of _pseudo_likelihood; -1 while it does not exist
    rbmFitFn,      \* the attribute "___fit": the compiled training step
    rbmCall,       \* the fit call in progress (its locals and position)
    rbmLog,        \* what has happened: counters, the last step, callbacks
    \* ---- SetRBM: one model object and the files of its directory
    setObj,        \* "constructed", or "raised" when __init__ raised
    setCfg,        \* K and learning_rate
    setP,          \* [parameter name -> content of the shared variable]
    setRng,        \* number of train calls that advanced self.theano_rng
    setFiles,      \* [file name -> the array stored in it: Ref(parameter, version)]
    setLog,        \* the last call, the train calls made, the saves by tag
    \* ---- MLP: one model object and the files of its directory
    mlpCfg,        \* the trainer's momentum (0 for None)
    mlpStore,      \* [shared variable -> its array], integers for reals
    mlpMask,       \* [stack -> [layer -> sign mask drawn when the layer was built]]
    mlpRng,        \* number of draws made from self.rng
    mlpFiles,      \* [file name -> array stored in it]
    mlpLog,        \* calls made, the last call, the reference inference call,
                   \* and what output and transform returned when save was called
    \* ---- RNN: one network
    rnnCfg,        \* learning rate, and what the build's min/max do with NaN
    rnnP,          \* [parameter -> [index -> element]]
    rnnH0,         \* the initial hidden state h0
    rnnLog         \* train calls made, the last gradient, the parameters before

symVars == <<symAttrs, symCompiles, symConcrete, symLast, symCalls>>
rbmVars == <<rbmKind, rbmCfg, rbmW, rbmB, rbmC, rbmH, rbmBit, rbmFitFn, rbmCall, rbmLog>>
setVars == <<setObj, setCfg, setP, setRng, setFiles, setLog>>
mlpVars == <<mlpCfg, mlpStore, mlpMask, mlpRng, mlpFiles, mlpLog>>
rnnVars == <<rnnCfg, rnnP, rnnH0, rnnLog>>

vars == <<symAttrs, symCompiles, symConcrete, symLast, symCalls,
          rbmKind, rbmCfg, rbmW, rbmB, rbmC, rbmH, rbmBit, rbmFitFn, rbmCall, rbmLog,
          setObj, setCfg, setP, setRng, setFiles, setLog,
          mlpCfg, mlpStore, mlpMask, mlpRng, mlpFiles, mlpLog,
          rnnCfg, rnnP, rnnH0, rnnLog>>

Max2(a, b) == IF a >= b THEN a ELSE b
Min2(a, b) == IF a <= b THEN a ELSE b

\* The variables of a component that a specification does not run.
SymParked ==
    /\ symAttrs = <<>>
    /\ symCompiles = <<>>
    /\ symConcrete = <<>>
    /\ symLast = <<>>
    /\ symCalls = 0

RbmParked ==
    /\ rbmKind = "none"
    /\ rbmCfg = <<>>
    /\ rbmW = <<>>
    /\ rbmB = <<>>
    /\ rbmC = <<>>
    /\ rbmH = <<>>
    /\ rbmBit = -1
    /\ rbmFitFn = <<>>
    /\ rbmCall = <<>>
    /\ rbmLog = <<>>

SetParked ==
    /\ setObj = "none"
    /\ setCfg = <<>>
    /\ setP = <<>>
    /\ setRng = 0
    /\ setFiles = <<>>
    /\ setLog = <<>>

MlpParked ==
    /\ mlpCfg = <<>>
    /\ mlpStore = <<>>
    /\ mlpMask = <<>>
    /\ mlpRng = 0
    /\ mlpFiles = <<>>
    /\ mlpLog = <<>>

RnnParked ==
    /\ rnnCfg = <<>>
    /\ rnnP = <<>>
    /\ rnnH0 = <<>>
    /\ rnnLog = <<>>

(***************************************************************************)
(* symbolic(inputs): ml.py 11-49                                           *)
(***************************************************************************)
MaxCalls == 3

\* Two model objects; every instance has its own attribute dictionary.
SymInstances == {"rbm_a", "rbm_b"}

\* The methods of BinaryRBM / GaussianRBM decorated with @symbolic.
SymMethods == {"mean_h", "sample_h", "mean_v", "sample_v", "free_energy",
               "gibbs", "_fit"}

NoFn == [owner |-> "none", method |-> "none"]

\* A cache key that forgets the method: every method of an instance would
\* share one attribute.
SymNameShared(method) == "__"

\* name = "__" + method.__name__
SymName(method) == "__" \o method

\* hasattr(self, name)
SymHasAttr(self, name) == name \in DOMAIN symAttrs[self]

\* theano.function(inputs, output, updates=updates): the compiled function of
\* method `method` built on the graph of instance `self`.
SymCompile(self, method) == [owner |-> self, method |-> method]

SymInit ==
    /\ symAttrs = [i \in SymInstances |-> <<>>]
    /\ symCompiles = [i \in SymInstances |-> [m \in SymMethods |-> 0]]
    /\ symConcrete = [i \in SymInstances |-> [m \in SymMethods |-> 0]]
    /\ symLast = [self |-> "none", method |-> "none", path |-> "none", ran |-> NoFn]
    /\ symCalls = 0
    /\ RbmParked
    /\ SetParked
    /\ MlpParked
    /\ RnnParked

\* wrapper(self, *args) with args[0] a T.Variable: the method itself builds a
\* graph on the caller's variables; nothing is compiled, nothing is stored.
\* (This is also the path of the nested calls a method makes while its own
\* graph is built: sample_h calls mean_h, gibbs calls sample_h and sample_v.)
wrapper_symbolic(self, method) ==
    /\ symCalls < MaxCalls
    /\ symCalls' = symCalls + 1
    /\ symLast' = [self |-> self, method |-> method, path |-> "symbolic", ran |-> NoFn]
    /\ UNCHANGED <<symAttrs, symCompiles, symConcrete>>
    /\ UNCHANGED <<rbmVars, setVars, mlpVars, rnnVars>>

\* wrapper(self, *args) with concrete args.
wrapper_concrete(self, method) ==
    LET name == SymName(method) IN
    /\ symCalls < MaxCalls
    /\ symCalls' = symCalls + 1
    /\ symConcrete' = [symConcrete EXCEPT ![self][method] = @ + 1]
    /\ UNCHANGED <<rbmVars, setVars, mlpVars, rnnVars>>
    /\ IF SymHasAttr(self, name)
       THEN \* return getattr(self, name)(*args)
            /\ symLast' = [self |-> self, method |-> method, path |-> "cached",
                           ran |-> symAttrs[self][name]]
            /\ UNCHANGED <<symAttrs, symCompiles>>
       ELSE \* res = method(self, *inputs); setattr(self, name, theano.function(..))
            /\ symCompiles' = [symCompiles EXCEPT ![self][method] = @ + 1]
            /\ symAttrs' = [symAttrs EXCEPT
                   ![self] = [n \in DOMAIN symAttrs[self] \cup {name} |->
                                 IF n = name THEN SymCompile(self, method)
                                 ELSE symAttrs[self][n]]]
            /\ symLast' = [self |-> self, method |-> method, path |-> "compiled",
                           ran |-> SymCompile(self, method)]

SymCallSymbolic == \E self \in SymInstances, m \in SymMethods : wrapper_symbolic(self, m)
SymCallConcrete == \E self \in SymInstances, m \in SymMethods : wrapper_concrete(self, m)

NextSym == SymCallSymbolic \/ SymCallConcrete

SpecSym == SymInit /\ [][NextSym]_vars

MaxK == 2          \* K is drawn from 0 .. MaxK
MaxSamples == 2    \* n_samples from 1 .. MaxSamples
MaxEpochs == 2     \* epochs from 1 .. MaxEpochs
MaxN == 3          \* the data set has 1 .. MaxN rows
MaxSteps == 4      \* training steps over the life of the object
NHiddens == 2      \* n_hiddens of the object
NVisibles == 3     \* columns of the data set of the class docstring

\* ---- expressions: nodes of the Theano graph -----------------------------
Node(op, n, args) == [op |-> op, n |-> n, args |-> args]

\* The value a shared variable held when it had version `ver`.
Ref(name, ver) == Node(name, ver, <<>>)

\* A shared variable's content.
Val(shape, ver, def) == [shape |-> shape, ver |-> ver, def |-> def]

RefW == Ref("W", rbmW.ver)
RefB == Ref("b", rbmB.ver)
RefC == Ref("c", rbmC.ver)
RefH == Ref("h_samples", rbmH.ver)

\* ---- the data: X of the class docstring, row i (0-based) ---------------
\* X = [[0, 0, 0], [0, 1, 1], [1, 0, 1], [1, 1, 1]], continued periodically.
DataRow(i) == <<(i \div 2) % 2, i % 2, IF i % 4 = 0 THEN 0 ELSE 1>>

\* inds[start::step] of a Python list (0-based start), as a sequence.
Slice(inds, start, step) ==
    [j \in 1 .. ((Len(inds) - start + step - 1) \div step) |-> inds[start + (j - 1) * step + 1]]

NBatchesFloor(n, n_samples) == n \div n_samples

\* int(numpy.ceil(len(inds) / float(self.n_samples)))
NBatches(n, n_samples) == (n + n_samples - 1) \div n_samples

\* Orders numpy.random.shuffle can leave range(n) in: as it was, reversed,
\* and rotated by one place.
Perms(n) == {[i \in 1 .. n |-> i - 1], [i \in 1 .. n |-> n - i], [i \in 1 .. n |-> i % n]}

\* ---- the graphs of the @symbolic methods --------------------------------
\* mean_h: sigmoid(dot(v, W) + c)                         ml.py 152, 433
mean_h(v) == Node("mean_h", 0, <<v, RefW, RefC>>)

\* sample_h: rng.binomial(n=1, p=mean_h(v))               ml.py 167, 448
sample_h(v) == Node("binomial", 0, <<mean_h(v)>>)

\* mean_v: sigmoid(dot(h, W.T) + b), GaussianRBM: dot(h, W.T) + b
\*                                                        ml.py 183, 464
mean_v(h) == Node(IF rbmKind = "binary" THEN "mean_v_sigmoid" ELSE "mean_v_linear",
                  0, <<h, RefW, RefB>>)

\* sample_v: rng.binomial(p=mean_v(h)), GaussianRBM: rng.normal(avg=mean_v(h))
\*                                                        ml.py 198, 479
sample_v(h) == Node(IF rbmKind = "binary" THEN "binomial" ELSE "normal", 0, <<mean_v(h)>>)

\* free_energy(v)                                         ml.py 215, 496
free_energy(v) == Node("free_energy", 0, <<v, RefW, RefB, RefC>>)

\* A chain that forgets the fantasy particles and starts from zeros.
RBM_chain_start_zeros == Node("zeros", 0, <<>>)

\* h_neg = self.h_samples                                 ml.py 246, 527
RBM_chain_start == RefH

\* One pass of the loop body of _fit:                     ml.py 248-249, 529-530
\*   BinaryRBM:   v_neg = sample_v(h_neg); h_neg = sample_h(v_neg)
\*   GaussianRBM: v_neg = mean_v(h_neg);   h_neg = sample_h(v_neg)
RBM_v_neg(h_neg) == IF rbmKind = "binary" THEN sample_v(h_neg) ELSE mean_v(h_neg)

RECURSIVE RBM_chain(_, _)
\* h_neg after k passes of the loop, from h.
RBM_chain(k, h) == IF k <= 0 THEN h ELSE sample_h(RBM_v_neg(RBM_chain(k - 1, h)))

\* cost = mean(free_energy(v_pos)) - mean(free_energy(v_neg))    ml.py 251, 532
RBM_cost(v_pos, v_neg) ==
    Node("sub", 0, <<Node("mean", 0, <<free_energy(v_pos)>>),
                     Node("mean", 0, <<free_energy(v_neg)>>)>>)

\* updates[p] = p - epsilon * grad(cost, p, consider_constant=[v_neg])
\*                                                        ml.py 253-258, 534-539
RBM_sgd(p, eps, cost, v_neg) ==
    Node("sub", 0, <<p, Node("scale", eps, <<Node("grad", 0, <<cost, p, v_neg>>)>>)>>)

\* ---- shapes: what the compiled function accepts -------------------------
\* dot(h, W.T) + b, then dot(v, W) + c, for the chain; dot(v, b) or v - b and
\* dot(v, W) + c for both free energies.  Theano raises on any mismatch.
RBM_shapes_ok(rows) ==
    /\ Len(rbmW.shape) = 2 /\ Len(rbmH.shape) = 2
    /\ rbmH.shape[2] = rbmW.shape[2]       \* dot(h_neg, W.T)
    /\ rbmB.shape = <<rbmW.shape[1]>>      \* + b
    /\ rbmC.shape = <<rbmW.shape[2]>>      \* dot(v_neg, W) + c
    /\ NVisibles = rbmW.shape[1]           \* dot(v_pos, W), dot(v_pos, b)
    /\ rows >= 1

\* A flip that takes bit_i for a 1-based column: with bit_i = 0 no column.
SetSubtensorFlipOffByOne(v_pos, bit_i) ==
    [r \in 1 .. Len(v_pos) |->
        [j \in 1 .. Len(v_pos[r]) |-> IF j = bit_i THEN 1 - v_pos[r][j] ELSE v_pos[r][j]]]

\* T.set_subtensor(v_pos[:, bit_i], 1 - v_pos[:, bit_i])  ml.py 284-285
SetSubtensorFlip(v_pos, bit_i) ==
    [r \in 1 .. Len(v_pos) |->
        [j \in 1 .. Len(v_pos[r]) |-> IF j = bit_i + 1 THEN 1 - v_pos[r][j] ELSE v_pos[r][j]]]

PseudoLikelihoodBitNoWrap(bit_i, n_columns) == bit_i + 1

\* updates[bit_i] = (bit_i + 1) % v_pos.shape[1]           ml.py 287
PseudoLikelihoodBit(bit_i, n_columns) == (bit_i + 1) % n_columns

NoStep == [v_pos |-> <<>>, fe_xi |-> <<>>, fe_xi_ |-> <<>>, bit |-> -1, K |-> -1,
           batch |-> <<>>, minibatch |-> -1]

\* ---- construction -------------------------------------------------------
\* __init__: W, c, b are the arrays given, or empty ones ([[]] and []);
\* h_samples is always the empty 1 x 0 array.             ml.py 100-113, 381-394
RBM_init(kind, given, K, n_samples, epochs) ==
    /\ rbmKind = kind
    /\ rbmCfg = [n_hiddens |-> NHiddens, K |-> K, epsilon |-> 1,
                 n_samples |-> n_samples, epochs |-> epochs]
    /\ rbmW = IF "W" \in given THEN Val(<<NVisibles, NHiddens>>, 0, Node("given", 0, <<>>))
              ELSE Val(<<1, 0>>, 0, Node("empty", 0, <<>>))
    /\ rbmC = IF "c" \in given THEN Val(<<NHiddens>>, 0, Node("given", 0, <<>>))
              ELSE Val(<<0>>, 0, Node("empty", 0, <<>>))
    /\ rbmB = IF "b" \in given THEN Val(<<NVisibles>>, 0, Node("given", 0, <<>>))
              ELSE Val(<<0>>, 0, Node("empty", 0, <<>>))
    /\ rbmH = Val(<<1, 0>>, 0, Node("empty", 0, <<>>))
    /\ rbmBit = -1
    /\ rbmFitFn = [compiled |-> FALSE, K |-> -1, epsilon |-> -1]
    /\ rbmCall = [pc |-> "idle", N |-> 0, inds |-> <<>>, n_batches |-> 0, epoch |-> 0,
                  minibatch |-> 0, verbose |-> FALSE, callback |-> FALSE]
    /\ rbmLog = [fits |-> 0, attempts |-> 0, steps |-> 0, hInits |-> 0, callSteps |-> 0,
                 callbacks |-> <<>>, error |-> "", last |-> NoStep]

\* The keyword arguments a caller gives: none, W alone, or W, c and b.
RbmGiven == {{}, {"W"}, {"W", "c", "b"}}

RbmInit ==
    \E kind \in {"binary", "gaussian"}, given \in RbmGiven, K \in 0 .. MaxK,
       n_samples \in 1 .. MaxSamples, epochs \in 1 .. MaxEpochs :
        RBM_init(kind, given, K, n_samples, epochs)

RBM_fit_fresh_always == TRUE

\* if self.W.shape[1] == 0:                                ml.py 302, 575
RBM_fit_fresh == rbmW.shape[2] = 0

\* ---- fit(X, verbose, callback) ------------------------------------------
\* The head of fit, up to the loops:                      ml.py 301-314, 574-587
\* X has N rows; inds is range(N) as shuffle left it.
RBM_fit_begin(N, inds, verbose, callback) ==
    LET n_in == NVisibles                              \* project(X[[0]]).shape[1]
        n_batches == NBatches(N, rbmCfg.n_samples)
        fresh == RBM_fit_fresh
    IN
    /\ rbmCall.pc \in {"idle", "returned", "raised"}
    /\ rbmLog.attempts + rbmCfg.epochs * n_batches <= MaxSteps
    /\ rbmW' = IF fresh THEN Val(<<n_in, rbmCfg.n_hiddens>>, rbmW.ver + 1, Node("normal", 0, <<>>))
               ELSE rbmW
    /\ rbmC' = IF fresh THEN Val(<<rbmCfg.n_hiddens>>, rbmC.ver + 1, Node("zeros", 0, <<>>))
               ELSE rbmC
    /\ rbmB' = IF fresh THEN Val(<<n_in>>, rbmB.ver + 1, Node("zeros", 0, <<>>))
               ELSE rbmB
    /\ rbmH' = IF fresh THEN Val(<<rbmCfg.n_samples, rbmCfg.n_hiddens>>, rbmH.ver + 1,
                                 Node("zeros", 0, <<>>))
               ELSE rbmH
    /\ rbmCall' = [pc |-> "loop", N |-> N, inds |-> inds, n_batches |-> n_batches,
                   epoch |-> 0, minibatch |-> 0, verbose |-> verbose, callback |-> callback]
    /\ rbmLog' = [rbmLog EXCEPT !.fits = @ + 1,
                                !.hInits = IF fresh THEN @ + 1 ELSE @,
                                !.callSteps = 0, !.callbacks = <<>>, !.error = ""]
    /\ UNCHANGED <<rbmKind, rbmCfg, rbmBit, rbmFitFn>>

\* One pass of the inner loop: self._fit(project(X[inds[minibatch::n_batches]])),
\* through the wrapper of `symbolic`.                      ml.py 320, 593; 29-45
\* The first call compiles _fit (236-264, 517-545) with the K and epsilon the
\* object has then; with K = 0 the name v_neg is unbound at line 251 / 532
\* and building the graph raises.  The compiled function computes every
\* update from the values the shared variables hold when it is called and
\* writes them when it returns; when it raises it writes nothing.
RBM_fit_compiled_afresh ==
    [compiled |-> TRUE, K |-> rbmCfg.K, epsilon |-> rbmCfg.epsilon]

\* The wrapper of `symbolic` around _fit: the function stored under "___fit"
\* when there is one, else the one compiled now from the graph that _fit
\* builds with self.K passes of its loop and the number self.epsilon.
\*                                                        ml.py 29-45, 236-264
RBM_fit_compiled ==
    IF rbmFitFn.compiled THEN rbmFitFn
    ELSE [compiled |-> TRUE, K |-> rbmCfg.K, epsilon |-> rbmCfg.epsilon]

RBM_fit_step ==
    LET batch == Slice(rbmCall.inds, rbmCall.minibatch, rbmCall.n_batches)
        v_pos == [r \in 1 .. Len(batch) |-> DataRow(batch[r])]
        x_pos == Node("batch", rbmCall.minibatch, <<>>)
        fn    == RBM_fit_compiled
        bit   == IF rbmFitFn.compiled THEN rbmBit ELSE 0      \* theano.shared(value=0)
        h_neg == RBM_chain(fn.K, RBM_chain_start)
        v_neg == RBM_v_neg(RBM_chain(fn.K - 1, RBM_chain_start))
        cost  == RBM_cost(x_pos, v_neg)
        last  == (rbmCall.minibatch + 1 = rbmCall.n_batches)
    IN
    /\ rbmCall.pc = "loop"
    /\ IF ~rbmFitFn.compiled /\ rbmCfg.K = 0
       THEN \* NameError while the graph is built: nothing compiled, fit ends
            /\ rbmCall' = [rbmCall EXCEPT !.pc = "raised"]
            /\ rbmLog' = [rbmLog EXCEPT !.attempts = @ + 1, !.error = "NameError"]
            /\ UNCHANGED <<rbmW, rbmB, rbmC, rbmH, rbmBit, rbmFitFn>>
       ELSE IF ~RBM_shapes_ok(Len(v_pos))
       THEN \* the compiled function raises on the shapes: no update is written
            /\ rbmFitFn' = fn
            /\ rbmBit' = IF rbmKind = "binary" THEN bit ELSE rbmBit
            /\ rbmCall' = [rbmCall EXCEPT !.pc = "raised"]
            /\ rbmLog' = [rbmLog EXCEPT !.attempts = @ + 1, !.error = "ValueError"]
            /\ UNCHANGED <<rbmW, rbmB, rbmC, rbmH>>
       ELSE /\ rbmFitFn' = fn
            /\ rbmW' = Val(rbmW.shape, rbmW.ver + 1, RBM_sgd(RefW, fn.epsilon, cost, v_neg))
            /\ rbmB' = Val(rbmB.shape, rbmB.ver + 1, RBM_sgd(RefB, fn.epsilon, cost, v_neg))
            /\ rbmC' = Val(rbmC.shape, rbmC.ver + 1, RBM_sgd(RefC, fn.epsilon, cost, v_neg))
            \* updates[self.h_samples] = h_neg: rows of h_samples, columns of W
            /\ rbmH' = Val(<<rbmH.shape[1], rbmW.shape[2]>>, rbmH.ver + 1, h_neg)
            \* updates[bit_i] = (bit_i + 1) % v_pos.shape[1]  (BinaryRBM only)
            /\ rbmBit' = IF rbmKind = "binary" THEN PseudoLikelihoodBit(bit, NVisibles)
                          ELSE rbmBit
            /\ rbmCall' = [rbmCall EXCEPT !.minibatch = @ + 1,
                                          !.pc = IF last THEN "epoch_end" ELSE "loop"]
            /\ rbmLog' = [rbmLog EXCEPT
                   !.attempts = @ + 1, !.steps = @ + 1, !.callSteps = @ + 1,
                   !.last = IF rbmKind = "binary"
                            THEN [v_pos |-> v_pos, fe_xi |-> v_pos,
                                  fe_xi_ |-> SetSubtensorFlip(v_pos, bit),
                                  bit |-> bit, K |-> fn.K,
                                  batch |-> batch, minibatch |-> rbmCall.minibatch]
                            ELSE [v_pos |-> v_pos, fe_xi |-> <<>>, fe_xi_ |-> <<>>,
                                  bit |-> -1, K |-> fn.K,
                                  batch |-> batch, minibatch |-> rbmCall.minibatch]]
    /\ UNCHANGED <<rbmKind, rbmCfg>>

RBM_callback_called_without_verbose(verbose, callback) == callback

\* if verbose: ... if callback != None: callback(self, epoch)
\*                                                        ml.py 324-330, 597-603
RBM_callback_called(verbose, callback) == verbose /\ callback

\* The end of one pass of the outer loop: the report and the callback.
\*                                                        ml.py 321-330, 594-603
RBM_fit_epoch_end ==
    /\ rbmCall.pc = "epoch_end"
    /\ rbmLog' = [rbmLog EXCEPT !.callbacks =
                      IF RBM_callback_called(rbmCall.verbose, rbmCall.callback)
                      THEN Append(@, [epoch |-> rbmCall.epoch, after |-> rbmLog.callSteps])
                      ELSE @]
    /\ rbmCall' = [rbmCall EXCEPT !.epoch = @ + 1, !.minibatch = 0,
                                  !.pc = IF rbmCall.epoch + 1 = rbmCfg.epochs
                                         THEN "returned" ELSE "loop"]
    /\ UNCHANGED <<rbmKind, rbmCfg, rbmW, rbmB, rbmC, rbmH, rbmBit, rbmFitFn>>

RBM_fit ==
    \E N \in 1 .. MaxN, verbose \in BOOLEAN, callback \in BOOLEAN :
        \E inds \in Perms(N) : RBM_fit_begin(N, inds, verbose, callback)

NextRBM ==
    \/ RBM_fit /\ UNCHANGED <<symVars, setVars, mlpVars, rnnVars>>
    \/ RBM_fit_step /\ UNCHANGED <<symVars, setVars, mlpVars, rnnVars>>
    \/ RBM_fit_epoch_end /\ UNCHANGED <<symVars, setVars, mlpVars, rnnVars>>

\* ---- assignments to the attributes K and epsilon --------------------------
MaxEpsilon == 2    \* epsilon is assigned values from 1 .. MaxEpsilon

\* The caller's code has control between fit calls and inside callback(self,
\* epoch), which is handed the object.                    ml.py 330, 603
RBM_caller_runs ==
    \/ rbmCall.pc \in {"idle", "returned", "raised"}
    \/ rbmCall.pc = "epoch_end" /\ RBM_callback_called(rbmCall.verbose, rbmCall.callback)

\* rbm.K = k: K is a plain attribute.                      ml.py 107, 388
RBM_set_K(k) ==
    /\ RBM_caller_runs
    /\ rbmCfg.K # k
    /\ rbmCfg' = [rbmCfg EXCEPT !.K = k]
    /\ UNCHANGED <<rbmKind, rbmW, rbmB, rbmC, rbmH, rbmBit, rbmFitFn, rbmCall, rbmLog>>

\* rbm.epsilon = e: epsilon is a plain attribute.          ml.py 108, 389
RBM_set_epsilon(e) ==
    /\ RBM_caller_runs
    /\ rbmCfg.epsilon # e
    /\ rbmCfg' = [rbmCfg EXCEPT !.epsilon = e]
    /\ UNCHANGED <<rbmKind, rbmW, rbmB, rbmC, rbmH, rbmBit, rbmFitFn, rbmCall, rbmLog>>

RbmSetK == \E k \in 0 .. MaxK : RBM_set_K(k)

RbmSetEpsilon == \E e \in 1 .. MaxEpsilon : RBM_set_epsilon(e)

\* Objects constructed without W, c and b, of every K, that train on one
\* row at a time for one pass over the data.
RbmInitEmpty ==
    \E kind \in {"binary", "gaussian"}, K \in 0 .. MaxK :
        RBM_init(kind, {}, K, 1, 1)

\* fit(X, True, callback) on data that shuffle leaves in one of two orders.
RbmFitVerbose ==
    \E N \in 1 .. MaxN, callback \in BOOLEAN :
        \E inds \in {[i \in 1 .. N |-> i - 1], [i \in 1 .. N |-> N - i]} :
            RBM_fit_begin(N, inds, TRUE, callback)

NextRBMSet ==
    \/ RbmFitVerbose /\ UNCHANGED <<symVars, setVars, mlpVars, rnnVars>>
    \/ RBM_fit_step /\ UNCHANGED <<symVars, setVars, mlpVars, rnnVars>>
    \/ RBM_fit_epoch_end /\ UNCHANGED <<symVars, setVars, mlpVars, rnnVars>>
    \/ RbmSetK /\ UNCHANGED <<symVars, setVars, mlpVars, rnnVars>>
    \/ RbmSetEpsilon /\ UNCHANGED <<symVars, setVars, mlpVars, rnnVars>>

InitRBMSet == RbmInitEmpty /\ SymParked /\ SetParked /\ MlpParked /\ RnnParked

SpecRBMSet == InitRBMSet /\ [][NextRBMSet]_vars

InitRBM == RbmInit /\ SymParked /\ SetParked /\ MlpParked /\ RnnParked

SpecRBM == InitRBM /\ [][NextRBM]_vars

\* ---- C2 -----------------------------------------------------------------
Malformed == Node("malformed", 0, <<>>)

\* The visible expression a hidden sample was drawn from, when the hidden
\* sample is binomial(mean_h(v)) on the parameters as they are before the step.
C2_VisibleOf(h) ==
    IF /\ h.op = "binomial" /\ Len(h.args) = 1
       /\ h.args[1].op = "mean_h" /\ Len(h.args[1].args) = 3
       /\ h.args[1].args[2] = RefW /\ h.args[1].args[3] = RefC
    THEN h.args[1].args[1] ELSE Malformed

\* The hidden expression a visible one was computed from: a binomial sample of
\* the sigmoid mean (BinaryRBM) or the linear mean itself (GaussianRBM).
C2_HiddenOf(v) ==
    LET m == IF rbmKind = "binary"
             THEN (IF v.op = "binomial" /\ Len(v.args) = 1 THEN v.args[1] ELSE Malformed)
             ELSE v
        op == IF rbmKind = "binary" THEN "mean_v_sigmoid" ELSE "mean_v_linear"
    IN IF m.op = op /\ Len(m.args) = 3 /\ m.args[2] = RefW /\ m.args[3] = RefB
       THEN m.args[1] ELSE Malformed

RECURSIVE C2_Root(_, _)
\* What remains of hidden expression h after undoing k alternations.
C2_Root(h, k) == IF k = 0 THEN h ELSE C2_Root(C2_HiddenOf(C2_VisibleOf(h)), k - 1)

RECURSIVE C2_Leaves(_)
\* The values an expression reads.
C2_Leaves(t) == IF t.args = <<>> THEN {t}
                ELSE UNION {C2_Leaves(t.args[i]) : i \in 1 .. Len(t.args)}

\* C2: every training step of an RBM with K >= 1 starts its negative chain
\* from the fantasy particles as the previous step (or the initialisation)
\* left them, runs K alternations visible-from-hidden, hidden-from-visible,
\* and stores the last hidden sample as the new fantasy particles; the chain
\* never reads the data batch; W, b, c and the fantasy particles are all
\* computed from the values held before the step and written in that step;
\* and between steps (across mini-batches, epochs and fit calls) nothing else
\* writes the fantasy particles but the initialisation of the first fit.
C2_PersistentChain ==
    [][ /\ (rbmLog'.steps = rbmLog.steps + 1) =>
             /\ rbmCfg.K >= 1
             /\ rbmLog'.last.K = rbmCfg.K
             /\ C2_Root(rbmH'.def, rbmCfg.K) = RefH
             /\ C2_Leaves(rbmH'.def) \subseteq {RefW, RefB, RefC, RefH}
             /\ Node("batch", rbmCall.minibatch, <<>>) \in C2_Leaves(rbmW'.def)
             /\ \A p \in {rbmW'.def, rbmB'.def, rbmC'.def} :
                   C2_Leaves(p) \subseteq
                       {RefW, RefB, RefC, RefH, Node("batch", rbmCall.minibatch, <<>>)}
             /\ rbmW'.def.args[1] = RefW /\ rbmB'.def.args[1] = RefB
             /\ rbmC'.def.args[1] = RefC
             /\ rbmW'.ver = rbmW.ver + 1 /\ rbmB'.ver = rbmB.ver + 1
             /\ rbmC'.ver = rbmC.ver + 1 /\ rbmH'.ver = rbmH.ver + 1
        /\ (rbmH' # rbmH) =>
             \/ rbmLog'.steps = rbmLog.steps + 1
             \/ rbmLog'.hInits = rbmLog.hInits + 1 /\ rbmLog.fits = 0
      ]_vars

\* A step of the second fit call of a GaussianRBM with K = 2 has run: its
\* chain started from the particles the first call left.
C2_Witness ==
    /\ rbmKind = "gaussian" /\ rbmCfg.K = 2
    /\ rbmLog.fits = 2 /\ rbmLog.callSteps >= 1 /\ rbmH.ver >= 3

\* ---- C3 -----------------------------------------------------------------
\* C3: once fit has been called, the fantasy particles have been initialised
\* exactly once, to n_samples x n_hiddens, and they keep that shape.
C3_FantasyShape ==
    rbmLog.fits >= 1 =>
        /\ rbmLog.hInits = 1
        /\ rbmH.shape = <<rbmCfg.n_samples, rbmCfg.n_hiddens>>

\* ---- C8 -----------------------------------------------------------------
\* The columns in which matrix b differs from matrix a.
C8_Changed(a, b) == {j \in 1 .. NVisibles : \E r \in 1 .. Len(a) : a[r][j] # b[r][j]}

\* C8 as stated: the pseudo-likelihood of a BinaryRBM step flips exactly one
\* input dimension and that dimension is chosen at random for each call:
\* whenever a training step can run, it can flip any of the dimensions.
C8_RandomDimension ==
    (rbmKind = "binary" /\ ENABLED (RBM_fit_step /\ rbmLog'.steps = rbmLog.steps + 1)) =>
        \A d \in 0 .. (NVisibles - 1) :
            ENABLED (RBM_fit_step /\ rbmLog'.steps = rbmLog.steps + 1
                                  /\ rbmLog'.last.bit = d)

\* C8 amended: the pseudo-likelihood of a BinaryRBM step compares the free
\* energy of the positive batch with that of the batch with exactly one input
\* dimension flipped, in every row; the dimension is not drawn at random, it
\* is the value the counter bit_i holds before the step.
C8_OneDimensionFromCounter ==
    [][ (rbmKind = "binary" /\ rbmLog'.steps = rbmLog.steps + 1) =>
          LET l == rbmLog'.last
              d == IF rbmFitFn.compiled THEN rbmBit ELSE 0
              batch == Slice(rbmCall.inds, rbmCall.minibatch, rbmCall.n_batches)
          IN /\ l.v_pos = [r \in 1 .. Len(batch) |-> DataRow(batch[r])]
             /\ Len(l.v_pos) >= 1
             /\ l.fe_xi = l.v_pos
             /\ C8_Changed(l.v_pos, l.fe_xi_) = {d + 1}
             /\ \A r \in 1 .. Len(l.v_pos) : l.fe_xi_[r][d + 1] = 1 - l.v_pos[r][d + 1]
             /\ d \in 0 .. (NVisibles - 1)
      ]_vars

\* A BinaryRBM step has flipped a dimension other than the first, on a
\* mini-batch of two rows.
C8_Witness ==
    /\ rbmKind = "binary" /\ rbmLog.steps >= 2
    /\ rbmLog.last.bit = 1 /\ Len(rbmLog.last.v_pos) = 2
    /\ C8_Changed(rbmLog.last.v_pos, rbmLog.last.fe_xi_) = {2}

(***************************************************************************)
(* SetRBM (ml.py 605-773)                                                  *)
(***************************************************************************)
MaxSetK == 2        \* K is drawn from 0 .. MaxSetK
MaxSetTrains == 2   \* train calls over the life of the object
MaxSetBatches == 2  \* distinct data batches (x, y) a caller passes

\* self.params = [self.W, self.U, self.b, self.c, self.d]      ml.py 651
SetParams == {"W", "U", "b", "c", "d"}

\* The value parameter p holds now.
SetRef(p) == Ref(p, setP[p].ver)

\* The learning rate is a shared variable that no method writes.  ml.py 654
SetLearningRate == Node("learning_rate", 0, <<>>)

\* The inputs of a call: self.x and self.y bound to batch number `batch`.
SetX(batch) == Node("x", batch, <<>>)
SetY(batch) == Node("y", batch, <<>>)

\* _mean_g / _sample_g: multinomial over the pooled code      ml.py 685-710
SetRBM_sample_g(x, y) ==
    Node("multinomial", 0, <<Node("mean_g", 0, <<x, y, SetRef("W"), SetRef("U"), SetRef("b")>>)>>)

\* _mean_h / _sample_h: binomial(maximum(g, sigmoid(dot(x, W) + b)))  ml.py 693, 712-718
SetRBM_sample_h(g, x) ==
    Node("binomial", 0, <<Node("mean_h", 0, <<g, x, SetRef("W"), SetRef("b")>>)>>)

\* _mean_x: dot(h, W.T) + c                                   ml.py 696-697
SetRBM_mean_x(h) == Node("mean_x", 0, <<h, SetRef("W"), SetRef("c")>>)

\* _mean_y / _sample_y: multinomial(softmax(dot(g, U.T).sum(0) + d))  ml.py 699, 728-734
SetRBM_sample_y(g) ==
    Node("multinomial", 0, <<Node("mean_y", 0, <<g, SetRef("U"), SetRef("d")>>)>>)

\* _free_energy(x, y)                                         ml.py 667-673
SetRBM_free_energy(x, y) ==
    Node("free_energy", 0, <<x, y, SetRef("W"), SetRef("U"), SetRef("b"), SetRef("c"),
                             SetRef("d")>>)

\* A round that samples the pooled code before the label, so that the label
\* is drawn from the new code.
SetRBM_round_g_first(st) ==
    LET nh == SetRBM_sample_h(st.g, st.x)
        nx == SetRBM_mean_x(nh)
        ng == SetRBM_sample_g(nx, st.y)
        ny == SetRBM_sample_y(ng)
    IN [h |-> nh, x |-> nx, y |-> ny, g |-> ng]

\* One pass of the loop of __train on the chain state st:     ml.py 740-746
SetRBM_round(st) ==
    LET nh == SetRBM_sample_h(st.g, st.x)
        nx == SetRBM_mean_x(nh)
        ny == SetRBM_sample_y(st.g)
        ng == SetRBM_sample_g(nx, ny)
    IN [h |-> nh, x |-> nx, y |-> ny, g |-> ng]

\* Before the loop: nx_samples = self.x, ng_samples = _sample_g(self.x, self.y);
\* nh_samples and ny_samples are not bound yet.               ml.py 737-738
SetRBM_chain_start(batch) ==
    [h |-> Node("unbound", 0, <<>>), x |-> SetX(batch), y |-> Node("unbound", 0, <<>>),
     g |-> SetRBM_sample_g(SetX(batch), SetY(batch))]

RECURSIVE SetRBM_chain(_, _)
SetRBM_chain(k, st) == IF k = 0 THEN st ELSE SetRBM_round(SetRBM_chain(k - 1, st))

\* cost = mean(free_energy(x, y)) - mean(free_energy(nx, ny))  ml.py 748-749
SetRBM_cost(batch, st) ==
    Node("sub", 0, <<Node("mean", 0, <<SetRBM_free_energy(SetX(batch), SetY(batch))>>),
                     Node("mean", 0, <<SetRBM_free_energy(st.x, st.y)>>)>>)

\* updates[param] = param - gparam * learning_rate, gparam the derivative in
\* param of the one cost of the call (kept in setLog.cost).
SetRBM_update(p) ==
    Node("sub", 0, <<SetRef(p),
                     Node("mul", 0, <<Node("gparam", 0, <<SetRef(p)>>), SetLearningRate>>)>>)

\* A file name that ignores the tag.
SetRBM_suffix_untagged(tag) == ""

\* tag = "" if tag == None else "_%s" % tag                  ml.py 764-767
SetRBM_suffix(tag) == IF tag.none THEN "" ELSE "_" \o tag.s

\* "rbm_W%s.npy" % tag, ...                                  ml.py 769-773
SetRBM_file(p, tag) == "rbm_" \o p \o SetRBM_suffix(tag) \o ".npy"

\* No array: the entry of a tag nothing was saved under.
Absent == Node("absent", 0, <<>>)

NoTag == [none |-> TRUE, s |-> ""]
SetTags == {NoTag} \cup {[none |-> FALSE, s |-> t] : t \in {"", "a"}}

\* __init__: the parameters are created (or taken from the caller), then the
\* training function is built by __train; with K = 0 the name ny_samples is
\* unbound at line 749 and the constructor raises.           ml.py 609-665
SetRBM_init(K) ==
    /\ setObj = IF K = 0 THEN "raised" ELSE "constructed"
    /\ setCfg = [K |-> K]
    /\ setP = [p \in SetParams |->
                  Val(<<>>, 0, Node(IF p \in {"W", "U"} THEN "normal" ELSE "zeros", 0, <<>>))]
    /\ setRng = 0
    /\ setFiles = <<>>
    /\ setLog = [op |-> "init", batch |-> 0, tag |-> NoTag, trains |-> 0,
                 cost |-> Node("none", 0, <<>>), constant |-> <<>>,
                 saved |-> [t \in SetTags |-> [p \in SetParams |-> Absent]]]

SetInit == \E K \in 0 .. MaxSetK : SetRBM_init(K)

\* self.train(x, y): the function compiled in __init__ from __train; all
\* updates are computed from the values held at the call.     ml.py 658-660, 736-761
SetRBM_train(batch) ==
    LET st == SetRBM_chain(setCfg.K, SetRBM_chain_start(batch)) IN
    /\ setObj = "constructed"
    /\ setLog.trains < MaxSetTrains
    /\ setP' = [p \in SetParams |->
                   Val(setP[p].shape, setP[p].ver + 1, SetRBM_update(p))]
    /\ setRng' = setRng + 1
    \* gparams = T.grad(cost, self.params, consider_constant=[nx_samples, ny_samples])
    /\ setLog' = [setLog EXCEPT !.op = "train", !.batch = batch, !.trains = @ + 1,
                                !.cost = SetRBM_cost(batch, st),
                                !.constant = <<st.x, st.y>>]
    /\ UNCHANGED <<setObj, setCfg, setFiles>>

\* self.output(x)                                            ml.py 665, 675-680
SetRBM_output(batch) ==
    /\ setObj = "constructed"
    /\ setLog' = [setLog EXCEPT !.op = "output", !.batch = batch]
    /\ UNCHANGED <<setObj, setCfg, setP, setRng, setFiles>>

\* save(tag): numpy.save of the five parameters              ml.py 763-773
SetRBM_save(tag) ==
    LET names == {SetRBM_file(p, tag) : p \in SetParams} IN
    /\ setObj = "constructed"
    /\ setFiles' = [f \in DOMAIN setFiles \cup names |->
                       IF f \in names
                       THEN SetRef(CHOOSE p \in SetParams : SetRBM_file(p, tag) = f)
                       ELSE setFiles[f]]
    /\ setLog' = [setLog EXCEPT !.op = "save", !.tag = tag,
                                !.saved[tag] = [p \in SetParams |-> SetRef(p)]]
    /\ UNCHANGED <<setObj, setCfg, setP, setRng>>

SetTrain == \E batch \in 1 .. MaxSetBatches : SetRBM_train(batch)
SetOutput == \E batch \in 1 .. MaxSetBatches : SetRBM_output(batch)
SetSave == \E tag \in SetTags : SetRBM_save(tag)

NextSet ==
    \/ SetTrain /\ UNCHANGED <<symVars, rbmVars, mlpVars, rnnVars>>
    \/ SetOutput /\ UNCHANGED <<symVars, rbmVars, mlpVars, rnnVars>>
    \/ SetSave /\ UNCHANGED <<symVars, rbmVars, mlpVars, rnnVars>>

InitSet == SetInit /\ SymParked /\ RbmParked /\ MlpParked /\ RnnParked

SpecSet == InitSet /\ [][NextSet]_vars

\* ---- C9 -----------------------------------------------------------------
\* The chain state one round before the one that produced visible x and
\* label y: x must be mean_x of a hidden sample h, h drawn given the earlier
\* code g and the earlier visible; y must be drawn from that same earlier g;
\* and g, when it is not the code of the data, is what remains to unwind.
C9_Prev(x, y) ==
    LET bad == [ok |-> FALSE, x |-> Malformed, g |-> Malformed]
        h   == IF x.op = "mean_x" /\ Len(x.args) = 3 /\ x.args[2] = SetRef("W")
                  /\ x.args[3] = SetRef("c") /\ x.args[1].op = "binomial"
                  /\ Len(x.args[1].args) = 1
               THEN x.args[1].args[1] ELSE Malformed
        my  == IF y.op = "multinomial" /\ Len(y.args) = 1 THEN y.args[1] ELSE Malformed
    IN IF /\ h.op = "mean_h" /\ Len(h.args) = 4
          /\ h.args[3] = SetRef("W") /\ h.args[4] = SetRef("b")
          /\ my.op = "mean_y" /\ Len(my.args) = 3
          /\ my.args[2] = SetRef("U") /\ my.args[3] = SetRef("d")
          /\ my.args[1] = h.args[1]
       THEN [ok |-> TRUE, x |-> h.args[2], g |-> h.args[1]]
       ELSE bad

\* The visible and the label a pooled code was drawn from.
C9_CodeOf(g) ==
    IF /\ g.op = "multinomial" /\ Len(g.args) = 1
       /\ g.args[1].op = "mean_g" /\ Len(g.args[1].args) = 5
       /\ g.args[1].args[3] = SetRef("W") /\ g.args[1].args[4] = SetRef("U")
       /\ g.args[1].args[5] = SetRef("b")
    THEN <<g.args[1].args[1], g.args[1].args[2]>> ELSE <<Malformed, Malformed>>

RECURSIVE C9_Root(_, _, _)
\* The (x, y) the chain started from, unwinding k rounds from (x, y).
C9_Root(x, y, k) ==
    IF k = 0 THEN <<x, y>>
    ELSE LET pr == C9_Prev(x, y)
             xy == C9_CodeOf(pr.g)
         IN IF pr.ok /\ xy[1] = pr.x THEN C9_Root(xy[1], xy[2], k - 1)
            ELSE <<Malformed, Malformed>>

\* C9: a SetRBM train call (K >= 1) starts its chain from the batch (x, y) of
\* the call, makes exactly K rounds updating h, x, y, g in that order, takes
\* the gradient of mean F(x, y) - mean F(nx, ny) with the final nx, ny held
\* constant, updates the five parameters W, U, b, c, d from their values
\* before the call and nothing else of the model, and reads nothing but the
\* batch and the parameters: no chain state of an earlier call.
C9_TrainChain ==
    [][ (setLog'.trains = setLog.trains + 1) =>
          LET b    == setLog'.batch
              nx   == setLog'.constant[1]
              ny   == setLog'.constant[2]
              cost == setLog'.cost
          IN /\ setCfg.K >= 1
             /\ Len(setLog'.constant) = 2
             /\ C9_Root(nx, ny, setCfg.K) = <<SetX(b), SetY(b)>>
             /\ cost = Node("sub", 0,
                   <<Node("mean", 0, <<Node("free_energy", 0,
                         <<SetX(b), SetY(b), SetRef("W"), SetRef("U"), SetRef("b"),
                           SetRef("c"), SetRef("d")>>)>>),
                     Node("mean", 0, <<Node("free_energy", 0,
                         <<nx, ny, SetRef("W"), SetRef("U"), SetRef("b"),
                           SetRef("c"), SetRef("d")>>)>>)>>)
             /\ C2_Leaves(cost) \subseteq {SetRef(p) : p \in SetParams} \cup {SetX(b), SetY(b)}
             /\ \A p \in SetParams :
                   /\ setP'[p].ver = setP[p].ver + 1
                   /\ setP'[p].def.args[1] = SetRef(p)
                   /\ setP'[p].def.args[2].args[1] = Node("gparam", 0, <<SetRef(p)>>)
             /\ UNCHANGED <<setObj, setCfg, setFiles>>
      ]_vars

\* Two train calls of a SetRBM with K = 2 have been made, the last one on
\* batch 2.
C9_Witness ==
    /\ setCfg.K = 2 /\ setLog.op = "train" /\ setLog.trains = 2 /\ setLog.batch = 2

\* ---- C10 ----------------------------------------------------------------
\* The file of parameter p under tag t, as the interface states it.
C10_Name(p, t) == IF t.none THEN "rbm_" \o p \o ".npy"
                  ELSE "rbm_" \o p \o "_" \o t.s \o ".npy"

\* C10: save writes each of W, U, b, c, d to the file named after the
\* parameter, with suffix "_<tag>" when a tag is given and none when it is
\* None.  So at any time the five files of every tag saved under hold what
\* the last save under that tag wrote (no save under another tag has
\* overwritten them) and no other file exists; a save writes the current
\* parameters to the five files of its tag, leaves every other file alone and
\* changes no parameter.
C10_SaveFiles ==
    /\ [](setObj = "constructed" =>
            /\ \A t \in SetTags : \A p \in SetParams :
                  setLog.saved[t][p] # Absent =>
                      /\ C10_Name(p, t) \in DOMAIN setFiles
                      /\ setFiles[C10_Name(p, t)] = setLog.saved[t][p]
            /\ DOMAIN setFiles =
                  UNION {{C10_Name(p, t) :
                             p \in {q \in SetParams : setLog.saved[t][q] # Absent}} :
                         t \in SetTags})
    /\ [][ (setLog'.op = "save" /\ setFiles' # setFiles) =>
             LET t == setLog'.tag IN
             /\ setP' = setP
             /\ \A p \in SetParams : setFiles'[C10_Name(p, t)] = SetRef(p)
             /\ \A f \in DOMAIN setFiles :
                   f \notin {C10_Name(p, t) : p \in SetParams} => setFiles'[f] = setFiles[f]
         ]_vars
    /\ [][ setLog'.op = "save" => setP' = setP /\ setRng' = setRng ]_vars

\* After training, a save under tag "a" has been made while the files saved
\* under no tag still hold the initial parameters.
C10_Witness ==
    /\ setLog.op = "save" /\ setLog.tag = [none |-> FALSE, s |-> "a"]
    /\ "rbm_W.npy" \in DOMAIN setFiles /\ "rbm_W_a.npy" \in DOMAIN setFiles
    /\ setFiles["rbm_W.npy"] = Ref("W", 0) /\ setFiles["rbm_W_a.npy"] = Ref("W", 2)
    /\ setFiles["rbm_d_a.npy"] = Ref("d", 2)

(***************************************************************************)
(* MLP: ml.py 886-1003, built from NeuralNetworkLayer (776-853) and        *)
(* trained by NeuralNetworkTrainer (856-883).                              *)
(*                                                                         *)
(* Arrays are sequences (a matrix is a sequence of rows) and reals are     *)
(* integers.  A shared variable is named by the place that created it,     *)
(* <<"layers", i, "W">>, and mlpStore maps each shared variable to its     *)
(* array: two layers that hold the same shared variable read the same      *)
(* entry.  Layers are numbered from 0 as in the code.                      *)
(***************************************************************************)
MaxMlpOps == 3
MlpNIn == 1
MlpLearningRate == 1
HiddenDropoutInv == 2

\* layers = [('R', 1), ('S', 2)]
MlpLayers == <<[type |-> "R", size |-> 1], [type |-> "S", size |-> 2]>>
NLayers == Len(MlpLayers)
MlpLayerIds == 0 .. (NLayers - 1)
MlpStacks == {"noisy", "clean"}
MlpKinds == {"W", "b"}

\* layer_n_in of layer i: ml.py 909-914
LayerNIn(i) == IF i = 0 THEN MlpNIn ELSE MlpLayers[i].size
LayerNOut(i) == MlpLayers[i + 1].size

\* An array of the shape of layer i's W (n_in x n_out) or b (n_out,), every
\* element being c: numpy.zeros and the shape of W_values, ml.py 785-796
Full(i, kind, c) ==
    IF kind = "W"
    THEN [r \in 1 .. LayerNIn(i) |-> [j \in 1 .. LayerNOut(i) |-> c]]
    ELSE [j \in 1 .. LayerNOut(i) |-> c]

\* numpy.random.uniform(low, high, size=(n_in, n_out)): the two draws the
\* model considers, with elements of both signs
MlpSeeds == {0, 1}
W_values(i, seed) ==
    [r \in 1 .. LayerNIn(i) |->
        [j \in 1 .. LayerNOut(i) |-> IF (r + j + seed) % 2 = 0 THEN 1 ELSE -1]]

\* param - learning_rate * gparam, element by element: ml.py 877
ArrStep(kind, a, g) ==
    IF kind = "W"
    THEN [r \in 1 .. Len(a) |->
             [j \in 1 .. Len(a[r]) |-> a[r][j] - MlpLearningRate * g[r][j]]]
    ELSE [j \in 1 .. Len(a) |-> a[j] - MlpLearningRate * g[j]]

\* param - memory, element by element: ml.py 874
ArrSub(kind, a, memory) ==
    IF kind = "W"
    THEN [r \in 1 .. Len(a) |-> [j \in 1 .. Len(a[r]) |-> a[r][j] - memory[r][j]]]
    ELSE [j \in 1 .. Len(a) |-> a[j] - memory[j]]

\* momentum * memory + learning_rate * gparam, element by element: ml.py 875
ArrVelocity(kind, memory, g, momentum) ==
    IF kind = "W"
    THEN [r \in 1 .. Len(memory) |->
             [j \in 1 .. Len(memory[r]) |->
                 momentum * memory[r][j] + MlpLearningRate * g[r][j]]]
    ELSE [j \in 1 .. Len(memory) |-> momentum * memory[j] + MlpLearningRate * g[j]]

\* The shared variables created by the layers of self.layers: ml.py 790-798
MLP_param(i, kind) == <<"layers", i, kind>>

MLP_clean_param_own(i, kind) == <<"clean_layers", i, kind>>

\* The shared variables the layers of self.clean_layers hold:
\* W=self.layers[i].W, b=self.layers[i].b, ml.py 954-959
MLP_clean_param(i, kind) == MLP_param(i, kind)

MLP_stack_param(stack, i, kind) ==
    IF stack = "noisy" THEN MLP_param(i, kind) ELSE MLP_clean_param(i, kind)

NoisyParams == {MLP_param(i, kind) : i \in MlpLayerIds, kind \in MlpKinds}

\* memory = theano.shared(param.get_value() * 0.), one for each parameter
\* when momentum is set: ml.py 872-873
Trainer_memory(v) == <<"memory", v[2], v[3]>>
MlpMomenta == {0, 2}

Trainer_param_update_from_new_memory(v, store, g, momentum) ==
    IF momentum # 0
    THEN ArrSub(v[3], store[v],
                ArrVelocity(v[3], store[Trainer_memory(v)], g[v], momentum))
    ELSE ArrStep(v[3], store[v], g[v])

\* The new value of parameter v in one call of the compiled _train: the
\* updates of ml.py 871-877, each computed from the values before the call
Trainer_param_update(v, store, g, momentum) ==
    IF momentum # 0
    THEN ArrSub(v[3], store[v], store[Trainer_memory(v)])
    ELSE ArrStep(v[3], store[v], g[v])
MlpParams == {MLP_stack_param(s, i, kind) :
                 s \in MlpStacks, i \in MlpLayerIds, kind \in MlpKinds}

\* xargs['mask'] = False for a rectifier layer whose (type, size) pair equals
\* that of the last layer: ml.py 923-924 and 951-952
MLP_masked(i) == MlpLayers[i + 1].type = "R" /\ MlpLayers[i + 1] # MlpLayers[NLayers]

MLP_pooled_everywhere(i) == TRUE

\* layer_input = T.max(layer_input, axis=0) when i == len(layers) - 1, in
\* both loops: ml.py 916-917 and 946-947
MLP_pooled_at(i) == i = NLayers - 1

MLP_dropout_everywhere(stack) == TRUE

\* The input of the last layer is multiplied by a Bernoulli draw divided by
\* hidden_dropout in self.layers (ml.py 916-919), not in self.clean_layers
\* (ml.py 946-947)
MLP_dropout_on(stack) == stack = "noisy"

\* binomial(n=1, p=hidden_dropout) / hidden_dropout: the factors a call can
\* draw, one scalar per call
MLP_factors(stack) == IF MLP_dropout_on(stack) THEN {0, HiddenDropoutInv} ELSE {1}

RECURSIVE SumTo(_, _)
SumTo(f, n) == IF n = 0 THEN 0 ELSE f[n] + SumTo(f, n - 1)

\* T.dot(x, W) + b for one row x: ml.py 800-802
Affine(row, W, b) ==
    [j \in 1 .. Len(b) |-> SumTo([r \in 1 .. Len(row) |-> row[r] * W[r][j]], Len(row)) + b[j]]

\* The activation of each layer class: ml.py 822-853.  Softmax is kept by
\* the order of its arguments, which is all that argmax reads; the sigmoid,
\* softplus and tanh layers have no integer counterpart and are left out.
Activation(type, mask, z) ==
    CASE type = "R"  -> [j \in 1 .. Len(z) |-> mask[j] * Max2(z[j], 0)]
      [] type = "Sq" -> [j \in 1 .. Len(z) |-> z[j] * z[j]]
      [] type = "Li" -> z
      [] type = "S"  -> z

RECURSIVE MaxOf(_, _, _)
MaxOf(m, j, n) == IF n = 1 THEN m[1][j] ELSE Max2(m[n][j], MaxOf(m, j, n - 1))

\* T.max(m, axis=0): the maximum of each column over the rows
MaxAxis0(m) == [j \in 1 .. Len(m[1]) |-> MaxOf(m, j, Len(m))]

\* argmax of a vector, counted from 0, the first one among equal maxima
ArgMax(v) ==
    (CHOOSE k \in 1 .. Len(v) :
        /\ \A j \in 1 .. Len(v) : v[j] <= v[k]
        /\ \A j \in 1 .. (k - 1) : v[j] < v[k]) - 1

\* layer.output of layer i of a stack for the input matrix x: ml.py 905-931
\* and 935-961.  The pooled input of the last layer is kept as a matrix of
\* one row.
RECURSIVE MLP_layer_output(_, _, _, _, _, _)
MLP_layer_output(stack, i, x, store, mask, factor) ==
    LET below == IF i = 0 THEN x
                 ELSE MLP_layer_output(stack, i - 1, x, store, mask, factor)
        pooled == IF MLP_pooled_at(i) THEN <<MaxAxis0(below)>> ELSE below
        layer_input ==
            IF i = NLayers - 1 /\ MLP_dropout_on(stack)
            THEN [r \in 1 .. Len(pooled) |->
                     [j \in 1 .. Len(pooled[r]) |-> pooled[r][j] * factor]]
            ELSE pooled
    IN  [r \in 1 .. Len(layer_input) |->
            Activation(MlpLayers[i + 1].type, mask[stack][i],
                       Affine(layer_input[r],
                              store[MLP_stack_param(stack, i, "W")],
                              store[MLP_stack_param(stack, i, "b")]))]

\* self._output: T.argmax(self.clean_layers[-1].output, axis=1), ml.py 963
MLP__output(x, store, mask, factor) ==
    LET out == MLP_layer_output("clean", NLayers - 1, x, store, mask, factor)
    IN  [r \in 1 .. Len(out) |-> ArgMax(out[r])]

RECURSIVE MLP_output_batches(_, _, _, _, _, _)
MLP_output_batches(x, batch_size, n, store, mask, factor) ==
    IF n = 0 THEN <<>>
    ELSE MLP_output_batches(x, batch_size, n - 1, store, mask, factor)
         \o MLP__output(SubSeq(x, (n - 1) * batch_size + 1, Min2(n * batch_size, Len(x))),
                        store, mask, factor)

\* MLP.output: ml.py 979-987; batch_size 0 stands for None
MLP_output(x, batch_size, store, mask, factor) ==
    IF batch_size # 0
    THEN MLP_output_batches(x, batch_size,
                            (Len(x) + batch_size - 1) \div batch_size,
                            store, mask, factor)
    ELSE MLP__output(x, store, mask, factor)

\* MLP.transform: T.max(self.clean_layers[-2].output, axis=0), ml.py 965
MLP_transform(x, store, mask, factor) ==
    MaxAxis0(MLP_layer_output("clean", NLayers - 2, x, store, mask, factor))

\* The input matrices and the inference calls the model makes
MlpRow(c) == [j \in 1 .. MlpNIn |-> c]
MlpInputs == {<<MlpRow(1)>>, <<MlpRow(-1), MlpRow(2)>>}
MlpCalls == {[kind |-> "output", x |-> x, bs |-> bs] : x \in MlpInputs, bs \in {0, 1}}
            \cup {[kind |-> "transform", x |-> x, bs |-> 0] : x \in MlpInputs}

MLP_call(c, store, mask, factor) ==
    IF c.kind = "output" THEN MLP_output(c.x, c.bs, store, mask, factor)
    ELSE MLP_transform(c.x, store, mask, factor)

MLP_file_unindexed(kind, i) == kind \o "_.npy"

\* "W_%d.npy" % i and "b_%d.npy" % i: ml.py 991-992 and 997-998
MLP_file(kind, i) == kind \o "_" \o ToString(i) \o ".npy"

\* The files in the order save writes and load reads them: ml.py 990-992
MlpFileOrder ==
    [k \in 1 .. (2 * NLayers) |->
        [i |-> (k - 1) \div 2, kind |-> IF k % 2 = 1 THEN "W" ELSE "b"]]

\* The gradients T.grad can give: ml.py 865-868.  One layer's W and b have
\* every element equal to c, the other layers' are zero.
MlpGrads ==
    {[v \in NoisyParams |-> Full(v[2], v[3], IF v[2] = i THEN c ELSE 0)] :
        i \in MlpLayerIds, c \in {-1, 1}}

NoStep_mlp == [x |-> <<>>, factor |-> 1, g |-> <<>>, noisy |-> <<>>]
NoRef == [kind |-> "none", x |-> <<>>, bs |-> 0, result |-> <<>>, at |-> 0]
NoSnap == [has |-> FALSE, store |-> <<>>, out |-> <<>>]

\* Files left in the directory by an earlier model that had one layer; the
\* directory can also hold the first of them only
StaleFiles ==
    [f \in {MLP_file("W", 0), MLP_file("b", 0)} |->
        IF f = MLP_file("W", 0) THEN Full(0, "W", 0) ELSE Full(0, "b", 1)]

\* The sign masks a construction can draw.  A masked rectifier layer's
\* activation multiplies by sign(numpy.random.uniform(-1, 1, (n_out,))),
\* drawn when the layer's graph is built, once for the layer of self.layers
\* and once more for the layer of self.clean_layers: ml.py 822-828, 926-929,
\* 954-959.  The unmasked layers are given the mask of ones.
MlpMaskDraws ==
    {[s \in MlpStacks |->
         [i \in MlpLayerIds |->
             [j \in 1 .. LayerNOut(i) |-> IF MLP_masked(i) THEN sign[s] ELSE 1]]] :
       sign \in [MlpStacks -> {-1, 1}]}

\* MLP.__init__: ml.py 887-972, for the momenta given to the trainer and the
\* directories the model can be started in
MLP_init(momenta, directories) ==
    /\ mlpCfg \in [momentum : momenta]
    /\ \E seed \in MlpSeeds :
          mlpStore = [v \in MlpParams \cup (IF mlpCfg.momentum # 0
                                            THEN {Trainer_memory(w) : w \in NoisyParams}
                                            ELSE {}) |->
                         IF v[1] = "memory" THEN Full(v[2], v[3], 0)
                         ELSE IF v[3] = "W" THEN W_values(v[2], seed)
                         ELSE Full(v[2], "b", 0)]
    /\ mlpMask \in MlpMaskDraws
    /\ mlpRng = 0
    /\ mlpFiles \in directories
    /\ mlpLog = [ops |-> 0, op |-> "init", err |-> "none", trains |-> 0,
                 call |-> NoRef, ref |-> NoRef, snap |-> NoSnap, before |-> <<>>,
                 step |-> NoStep_mlp]

MlpLogged(op, err, call, ref, snap, trains) ==
    mlpLog' = [ops |-> mlpLog.ops + 1, op |-> op, err |-> err, trains |-> trains,
               call |-> call, ref |-> ref, snap |-> snap, before |-> mlpStore,
               step |-> NoStep_mlp]

\* MLP.train -> NeuralNetworkTrainer.train: ml.py 975-976, 870-883.  The
\* call computes the training stack on x with one dropout draw; g is the
\* gradient of the cost it gives.  The record keeps what the last layer of
\* the training stack computed, the argument of its activation.
MLP_train(x, g) ==
    /\ mlpLog.ops < MaxMlpOps
    /\ \E factor \in MLP_factors("noisy") :
          /\ mlpStore' = [v \in DOMAIN mlpStore |->
                             IF v \in NoisyParams
                             THEN Trainer_param_update(v, mlpStore, g, mlpCfg.momentum)
                             ELSE IF v[1] = "memory"
                             THEN ArrVelocity(v[3], mlpStore[v], g[MLP_param(v[2], v[3])],
                                              mlpCfg.momentum)
                             ELSE mlpStore[v]]
          /\ mlpRng' = mlpRng + 1
          /\ mlpLog' = [ops |-> mlpLog.ops + 1, op |-> "train", err |-> "none",
                        trains |-> mlpLog.trains + 1, call |-> NoRef, ref |-> NoRef,
                        snap |-> mlpLog.snap, before |-> mlpStore,
                        step |-> [x |-> x, factor |-> factor, g |-> g,
                                  noisy |-> MLP_layer_output("noisy", NLayers - 1, x,
                                                             mlpStore, mlpMask, factor)]]
    /\ UNCHANGED <<mlpCfg, mlpMask, mlpFiles>>

\* MLP.save: ml.py 989-992
MLP_save ==
    /\ mlpLog.ops < MaxMlpOps
    /\ LET written == {MLP_file(kind, i) : kind \in MlpKinds, i \in MlpLayerIds}
       IN  mlpFiles' =
               [f \in DOMAIN mlpFiles \cup written |->
                   IF f \in written
                   THEN LET k == CHOOSE k \in DOMAIN MlpFileOrder :
                                     /\ MLP_file(MlpFileOrder[k].kind, MlpFileOrder[k].i) = f
                                     /\ \A m \in DOMAIN MlpFileOrder :
                                           MLP_file(MlpFileOrder[m].kind, MlpFileOrder[m].i) = f
                                           => m <= k
                        IN  mlpStore[MLP_param(MlpFileOrder[k].i, MlpFileOrder[k].kind)]
                   ELSE mlpFiles[f]]
    /\ MlpLogged("save", "none", NoRef, mlpLog.ref,
                 [has |-> TRUE, store |-> mlpStore,
                  out |-> [c \in MlpCalls |-> MLP_call(c, mlpStore, mlpMask, 1)]],
                 mlpLog.trains)
    /\ UNCHANGED <<mlpCfg, mlpStore, mlpMask, mlpRng>>

MLP_load_read_all_or_nothing(missing) ==
    IF missing = {} THEN DOMAIN MlpFileOrder ELSE {}

\* The files load reads, by their place in the order, when the files at the
\* places in missing do not exist: numpy.load raises at the first missing
\* one and the loop ends there, ml.py 996-998
MLP_load_read(missing) ==
    IF missing = {} THEN DOMAIN MlpFileOrder
    ELSE {k \in DOMAIN MlpFileOrder : \A m \in missing : k < m}

\* MLP.load: ml.py 995-998.  numpy.load raises IOError at the first file
\* that is missing; the set_value calls made before it stay.
MLP_load ==
    /\ mlpLog.ops < MaxMlpOps
    /\ LET missing == {k \in DOMAIN MlpFileOrder :
                          MLP_file(MlpFileOrder[k].kind, MlpFileOrder[k].i)
                              \notin DOMAIN mlpFiles}
           read == MLP_load_read(missing)
           loaded == {MLP_param(MlpFileOrder[k].i, MlpFileOrder[k].kind) : k \in read}
       IN  /\ mlpStore' = [v \in DOMAIN mlpStore |->
                              IF v \in loaded
                              THEN mlpFiles[MLP_file(v[3], v[2])]
                              ELSE mlpStore[v]]
           /\ MlpLogged("load", IF missing = {} THEN "none" ELSE "IOError",
                        NoRef, NoRef, mlpLog.snap, mlpLog.trains)
    /\ UNCHANGED <<mlpCfg, mlpMask, mlpRng, mlpFiles>>

\* MLP.reset -> NeuralNetworkLayer.reset: ml.py 1001-1003, 804-814.  The
\* assignment to the value attribute of a shared variable sets the array in
\* the Theano releases that have the attribute and raises in those that
\* removed it; the call then ends at the first layer with nothing changed.
MLP_reset(seed, has_value_attribute) ==
    /\ mlpLog.ops < MaxMlpOps
    /\ IF has_value_attribute
       THEN /\ mlpStore' = [v \in DOMAIN mlpStore |->
                               IF v \in NoisyParams
                               THEN IF v[3] = "W" THEN W_values(v[2], seed)
                                    ELSE Full(v[2], "b", 0)
                               ELSE mlpStore[v]]
            /\ MlpLogged("reset", "none", NoRef, NoRef, mlpLog.snap, mlpLog.trains)
       ELSE /\ mlpStore' = mlpStore
            /\ MlpLogged("reset", "Exception", NoRef, NoRef, mlpLog.snap, mlpLog.trains)
    /\ UNCHANGED <<mlpCfg, mlpMask, mlpRng, mlpFiles>>

\* A call of MLP.output or of the compiled function self.transform:
\* ml.py 963-965, 979-987
MLP_infer(c) ==
    /\ mlpLog.ops < MaxMlpOps
    /\ \E factor \in MLP_factors("clean") :
          LET result == MLP_call(c, mlpStore, mlpMask, factor)
              made == [kind |-> c.kind, x |-> c.x, bs |-> c.bs, result |-> result,
                       at |-> mlpLog.ops + 1]
          IN  MlpLogged(c.kind, "none", made,
                        IF mlpLog.ref.kind = "none" THEN made ELSE mlpLog.ref,
                        mlpLog.snap, mlpLog.trains)
    /\ mlpRng' = mlpRng + (IF MLP_dropout_on("clean") THEN 1 ELSE 0)
    /\ UNCHANGED <<mlpCfg, mlpStore, mlpMask, mlpFiles>>

\* The train calls: in the runs that save and load, every gradient on the
\* one-row input; in the runs that train, every input with two gradients
MlpTrain == \E x \in {<<MlpRow(1)>>}, g \in MlpGrads : MLP_train(x, g)
MlpTrainSet ==
    \E x \in MlpInputs :
        \E g \in {h \in MlpGrads : h[MLP_param(0, "W")][1][1] # Len(x) - 2} :
            MLP_train(x, g)
MlpSave == MLP_save
MlpLoad == MLP_load
MlpReset == \E seed \in MlpSeeds, has_value_attribute \in BOOLEAN :
                MLP_reset(seed, has_value_attribute)
MlpOutput == \E c \in {d \in MlpCalls : d.kind = "output"} : MLP_infer(c)
MlpTransform == \E c \in {d \in MlpCalls : d.kind = "transform"} : MLP_infer(c)

NextMLP ==
    \/ MlpTrain /\ UNCHANGED <<symVars, rbmVars, setVars, rnnVars>>
    \/ MlpSave /\ UNCHANGED <<symVars, rbmVars, setVars, rnnVars>>
    \/ MlpLoad /\ UNCHANGED <<symVars, rbmVars, setVars, rnnVars>>
    \/ MlpReset /\ UNCHANGED <<symVars, rbmVars, setVars, rnnVars>>
    \/ MlpOutput /\ UNCHANGED <<symVars, rbmVars, setVars, rnnVars>>
    \/ MlpTransform /\ UNCHANGED <<symVars, rbmVars, setVars, rnnVars>>

MlpDirectories == {<<>>, StaleFiles, [f \in {MLP_file("W", 0)} |-> StaleFiles[f]]}

InitMLP == MLP_init({0}, MlpDirectories)
           /\ SymParked /\ RbmParked /\ SetParked /\ RnnParked

SpecMLP == InitMLP /\ [][NextMLP]_vars

\* The runs that train, with and without momentum, and call output and
\* transform between the train calls
NextMLPTrain ==
    \/ MlpTrainSet /\ UNCHANGED <<symVars, rbmVars, setVars, rnnVars>>
    \/ MlpOutput /\ UNCHANGED <<symVars, rbmVars, setVars, rnnVars>>
    \/ MlpTransform /\ UNCHANGED <<symVars, rbmVars, setVars, rnnVars>>

InitMLPTrain == MLP_init(MlpMomenta, {<<>>})
                /\ SymParked /\ RbmParked /\ SetParked /\ RnnParked

SpecMLPTrain == InitMLPTrain /\ [][NextMLPTrain]_vars

\* ---- C4 -----------------------------------------------------------------
\* C4: after save, whatever train and reset calls follow, a load that
\* completes puts back the W and b every layer had when save was called, and
\* output and transform then return for every input (and batch size) what
\* they returned at the time of the save.
C4_SaveLoadRestores ==
    [][ (mlpLog'.ops = mlpLog.ops + 1 /\ mlpLog'.op = "load" /\ mlpLog'.err = "none"
         /\ mlpLog.snap.has)
        => /\ \A i \in MlpLayerIds : \A kind \in MlpKinds :
                 mlpStore'[MLP_param(i, kind)] = mlpLog.snap.store[MLP_param(i, kind)]
           /\ \A c \in MlpCalls :
                 MLP_call(c, mlpStore', mlpMask', 1) = mlpLog.snap.out[c]
      ]_vars

\* A load has completed and changed layer 0's W and layer 1's b back to the
\* saved ones, after a training step had moved them.
C4_Witness ==
    /\ mlpLog.op = "load" /\ mlpLog.err = "none" /\ mlpLog.snap.has
    /\ mlpLog.trains >= 1
    /\ mlpLog.before # mlpStore
    /\ mlpStore = mlpLog.snap.store

\* ---- C5 -----------------------------------------------------------------
\* C5: an output or transform call changes no parameter, no mask, no file
\* and draws nothing from the random stream; and it returns what the earlier
\* call with the same input (and batch size) returned when no train, load or
\* reset call was made since that earlier call.
C5_InferenceDeterministic ==
    [][ (mlpLog'.ops = mlpLog.ops + 1 /\ mlpLog'.op \in {"output", "transform"})
        => /\ UNCHANGED <<mlpStore, mlpMask, mlpRng, mlpFiles>>
           /\ (/\ mlpLog.ref.kind = mlpLog'.call.kind
               /\ mlpLog.ref.x = mlpLog'.call.x
               /\ mlpLog.ref.bs = mlpLog'.call.bs)
              => mlpLog'.call.result = mlpLog.ref.result
      ]_vars

\* output was called on the two-row input, then save, then output on the
\* same input with the same batch size again.
C5_Witness ==
    /\ mlpLog.op = "output" /\ mlpLog.call.x = <<MlpRow(-1), MlpRow(2)>>
    /\ mlpLog.ref.kind = "output" /\ mlpLog.ref.x = mlpLog.call.x
    /\ mlpLog.ref.bs = mlpLog.call.bs
    /\ mlpLog.ref.at < mlpLog.call.at
    /\ mlpLog.snap.has

\* ---- C6 -----------------------------------------------------------------
\* The store as the training stack sees it: every shared variable of layer
\* i read as the training stack's variable of layer i.
C6_NoisyView(store) ==
    [v \in DOMAIN store |-> store[<<"layers", v[2], v[3]>>]]

\* C6: at all times layer i of the clean stack holds the same W and b as
\* layer i of the training stack, and every output and transform call
\* returns what the clean layers compute from the training stack's current
\* parameters.
C6_CleanSharesParams ==
    /\ [](\A i \in MlpLayerIds : \A kind \in MlpKinds :
            mlpStore[MLP_stack_param("clean", i, kind)]
                = mlpStore[MLP_stack_param("noisy", i, kind)])
    /\ [][ (mlpLog'.ops = mlpLog.ops + 1 /\ mlpLog'.op \in {"output", "transform"})
           => mlpLog'.call.result =
                  MLP_call([kind |-> mlpLog'.call.kind, x |-> mlpLog'.call.x,
                            bs |-> mlpLog'.call.bs],
                           C6_NoisyView(mlpStore), mlpMask, 1)
         ]_vars

\* A save, then a training step, then an output call that returns another
\* class than the same call returned at the time of the save.
C6_Witness ==
    /\ mlpLog.op = "output" /\ mlpLog.trains >= 1
    /\ mlpLog.ref.at = mlpLog.ops
    /\ mlpLog.snap.has /\ mlpLog.snap.store # mlpStore
    /\ mlpLog.call.result #
          mlpLog.snap.out[[kind |-> "output", x |-> mlpLog.call.x, bs |-> mlpLog.call.bs]]

(***************************************************************************)
(* RNN: ml.py 1006-1060.                                                   *)
(*                                                                         *)
(* A floating-point element is a record: a number (an integer standing for *)
(* a real), NaN, or an infinity with its sign in v.  A parameter is a      *)
(* function from its indices (<<r, j>> for a matrix, <<j>> for a vector)   *)
(* to elements.                                                            *)
(***************************************************************************)
MaxRnnTrains == 3
MaxRnnLr == 2
RnnNIn == 1
RnnNHiddens == 1
RnnNOut == 1
ClipBound == 15

Num(v) == [kind |-> "num", v |-> v]
NaN == [kind |-> "nan", v |-> 0]
Inf == [kind |-> "inf", v |-> 1]
NInf == [kind |-> "inf", v |-> -1]

\* self.params = [self.W, self.U, self.V, self.b, self.c]: ml.py 1028
RnnParams == <<"W", "U", "V", "b", "c">>
RnnParamSet == {RnnParams[k] : k \in DOMAIN RnnParams}

\* The indices of each parameter, from its shape: ml.py 1012-1027
RnnIdx(p) ==
    CASE p = "W" -> (1 .. RnnNIn) \X (1 .. RnnNHiddens)
      [] p = "U" -> (1 .. RnnNHiddens) \X (1 .. RnnNHiddens)
      [] p = "V" -> (1 .. RnnNHiddens) \X (1 .. RnnNOut)
      [] p = "b" -> {<<j>> : j \in 1 .. RnnNHiddens}
      [] p = "c" -> {<<j>> : j \in 1 .. RnnNOut}

\* x < y for two elements; every comparison with NaN is false
FLess(x, y) ==
    /\ x.kind # "nan" /\ y.kind # "nan"
    /\ CASE x.kind = "inf" /\ y.kind = "inf" -> x.v < y.v
         [] x.kind = "inf" -> x.v < 0
         [] y.kind = "inf" -> y.v > 0
         [] OTHER -> x.v < y.v

\* T.minimum(x, y) and T.maximum(x, y).  With a NaN operand the result
\* depends on the build: the implementations that test for NaN give NaN,
\* the plain comparisons give the one or the other operand.
Minimum(x, y, on_nan) ==
    IF x.kind = "nan" \/ y.kind = "nan"
    THEN (CASE on_nan = "nan" -> NaN
            [] on_nan = "first" -> x
            [] on_nan = "second" -> y)
    ELSE IF FLess(y, x) THEN y ELSE x

Maximum(x, y, on_nan) ==
    IF x.kind = "nan" \/ y.kind = "nan"
    THEN (CASE on_nan = "nan" -> NaN
            [] on_nan = "first" -> x
            [] on_nan = "second" -> y)
    ELSE IF FLess(x, y) THEN y ELSE x

RnnOnNaN == {"nan", "first", "second"}

RNN_clip_upper_only(gparam, on_nan) == Minimum(gparam, Num(ClipBound), on_nan)

\* T.maximum(-15, T.minimum(gparam, 15.)): ml.py 1049
RNN_clip(gparam, on_nan) ==
    Maximum(Num(-ClipBound), Minimum(gparam, Num(ClipBound), on_nan), on_nan)

\* param - self.learning_rate * clipped for one element: ml.py 1048-1049.
\* The clipped gradient is a number or NaN; NaN in either operand gives NaN.
RNN_update(param, clipped, learning_rate) ==
    IF param.kind = "nan" \/ clipped.kind = "nan" THEN NaN
    ELSE Num(param.v - learning_rate * clipped.v)

\* The values a gradient element takes in the model, and the gradients
\* T.grad can give (ml.py 1042): the values laid over the elements of the
\* five parameters from a starting point, the same with one parameter's
\* gradient all NaN, and the gradient that is NaN everywhere.
RnnGradValues == <<Num(0), Num(-16), Num(15), Num(40), NInf, Num(-3), Inf, Num(-15)>>

RECURSIVE SumSeq(_, _)
SumSeq(q, n) == IF n = 0 THEN 0 ELSE q[n] + SumSeq(q, n - 1)

RnnGradPattern(shift, nan_at) ==
    [p \in RnnParamSet |->
        [idx \in RnnIdx(p) |->
            IF p \in nan_at THEN NaN
            ELSE LET k == CHOOSE k \in DOMAIN RnnParams : RnnParams[k] = p
                 IN  RnnGradValues[((k + SumSeq(idx, Len(idx)) + shift)
                                        % Len(RnnGradValues)) + 1]]]

RnnGrads ==
    {RnnGradPattern(shift, {}) : shift \in 0 .. (Len(RnnGradValues) - 1)}
    \cup {RnnGradPattern(0, {p}) : p \in RnnParamSet}
    \cup {RnnGradPattern(0, RnnParamSet)}

\* The cost is computed from every parameter: once an element of a
\* parameter is NaN the cost and its whole gradient are NaN.
RnnPoisoned == \E p \in RnnParamSet : \E idx \in RnnIdx(p) : rnnP[p][idx].kind = "nan"

\* RNN.__init__: ml.py 1007-1053
RnnInit ==
    /\ rnnCfg \in [learning_rate : 1 .. MaxRnnLr, on_nan : RnnOnNaN]
    /\ \E seed \in {0, 1} :
          rnnP = [p \in RnnParamSet |->
                     [idx \in RnnIdx(p) |->
                         IF p \in {"b", "c"} THEN Num(0)
                         ELSE IF (SumSeq(idx, Len(idx)) + seed) % 2 = 0
                              THEN Num(1) ELSE Num(-1)]]
    /\ rnnH0 = [j \in 1 .. RnnNHiddens |-> Num(0)]
    /\ rnnLog = [trains |-> 0, op |-> "init", g |-> <<>>, before |-> <<>>,
                 T |-> 0, result |-> <<>>]

\* self.train: the compiled function with the updates of ml.py 1046-1051;
\* every update is computed from the values before the call
RNN_train(g) ==
    /\ rnnLog.trains < MaxRnnTrains
    /\ rnnP' = [p \in RnnParamSet |->
                   [idx \in RnnIdx(p) |->
                       RNN_update(rnnP[p][idx],
                                  RNN_clip(g[p][idx], rnnCfg.on_nan),
                                  rnnCfg.learning_rate)]]
    /\ rnnLog' = [trains |-> rnnLog.trains + 1, op |-> "train", g |-> g,
                  before |-> rnnP, T |-> 0, result |-> <<>>]
    /\ UNCHANGED <<rnnCfg, rnnH0>>

RnnTrain ==
    \E g \in (IF RnnPoisoned THEN {RnnGradPattern(0, RnnParamSet)} ELSE RnnGrads) :
        RNN_train(g)

\* ---- the recurrence: ml.py 1030-1039, 1052-1053 -------------------------
\* The graph of a call is kept as an expression, as for the RBMs: tanh,
\* sigmoid and mean have no integer counterpart.  A parameter stands in it
\* with the number of train calls made before the call, h0 with its array,
\* and row t of the input sequence as the node "x" numbered t.
MaxRnnSteps == 2

RnnRef(p) == Ref(p, rnnLog.trains)
RNN_x(t) == Node("x", t, <<>>)

\* outputs_info=[self.h0, None]: ml.py 1037
RNN_outputs_info == Node("h0", 0, rnnH0)

RNN_step_h_from_h0(x_t, h_tm1) ==
    Node("tanh", 0,
         <<Node("add", 0, <<Node("dot", 0, <<x_t, RnnRef("W")>>),
                            Node("dot", 0, <<RNN_outputs_info, RnnRef("U")>>),
                            RnnRef("b")>>)>>)

\* h_t = T.tanh(T.dot(x_t, W) + T.dot(h_tm1, U) + b): ml.py 1031
RNN_step_h(x_t, h_tm1) ==
    Node("tanh", 0,
         <<Node("add", 0, <<Node("dot", 0, <<x_t, RnnRef("W")>>),
                            Node("dot", 0, <<h_tm1, RnnRef("U")>>),
                            RnnRef("b")>>)>>)

\* y_t = T.nnet.sigmoid(T.dot(h_t, V) + c): ml.py 1032
RNN_step_y(h_t) ==
    Node("sigmoid", 0,
         <<Node("add", 0, <<Node("dot", 0, <<h_t, RnnRef("V")>>), RnnRef("c")>>)>>)

\* theano.scan over the rows of x: ml.py 1035-1039
RECURSIVE RNN_scan_h(_)
RNN_scan_h(t) ==
    RNN_step_h(RNN_x(t), IF t = 1 THEN RNN_outputs_info ELSE RNN_scan_h(t - 1))

\* self.transform: h.mean(0), ml.py 1053
RNN_transform(T) == Node("mean0", 0, [t \in 1 .. T |-> RNN_scan_h(t)])

\* self.output: T.argmax(output.mean(0)), ml.py 1052
RNN_output(T) ==
    Node("argmax", 0,
         <<Node("mean0", 0, [t \in 1 .. T |-> RNN_step_y(RNN_scan_h(t))])>>)

\* A call of self.output or self.transform on a sequence of T rows: the
\* compiled functions have no updates
RNN_infer(kind, T) ==
    /\ rnnLog' = [trains |-> rnnLog.trains, op |-> kind, g |-> <<>>, before |-> rnnP,
                  T |-> T,
                  result |-> IF kind = "output" THEN RNN_output(T) ELSE RNN_transform(T)]
    /\ UNCHANGED <<rnnCfg, rnnP, rnnH0>>

RnnOutput == \E T \in 1 .. MaxRnnSteps : RNN_infer("output", T)
RnnTransform == \E T \in 1 .. MaxRnnSteps : RNN_infer("transform", T)

\* The train calls of the runs that also call output and transform: two
\* gradients of numbers and the gradient that is NaN everywhere
RnnTrainFew ==
    \E g \in (IF RnnPoisoned THEN {RnnGradPattern(0, RnnParamSet)}
              ELSE {RnnGradPattern(0, {}), RnnGradPattern(1, {}),
                    RnnGradPattern(0, RnnParamSet)}) :
        RNN_train(g)

NextRNNCalls ==
    \/ RnnTrainFew /\ UNCHANGED <<symVars, rbmVars, setVars, mlpVars>>
    \/ RnnOutput /\ UNCHANGED <<symVars, rbmVars, setVars, mlpVars>>
    \/ RnnTransform /\ UNCHANGED <<symVars, rbmVars, setVars, mlpVars>>

NextRNN ==
    \/ RnnTrain /\ UNCHANGED <<symVars, rbmVars, setVars, mlpVars>>

InitRNN == RnnInit /\ SymParked /\ RbmParked /\ SetParked /\ MlpParked

SpecRNN == InitRNN /\ [][NextRNN]_vars

SpecRNNCalls == InitRNN /\ [][NextRNNCalls]_vars

\* ---- C7 -----------------------------------------------------------------
\* The change of one element in the last step, old minus new, when both are
\* numbers.
C7_Moved(p, idx) == rnnP[p][idx].v - rnnP'[p][idx].v

\* C7 as stated: in every train call every element of W, U, V, b and c stays
\* a number and changes by at most 15 times the learning rate, whatever the
\* gradient the input sequence and targets give.
C7_ClipAlways ==
    [][ rnnLog'.trains = rnnLog.trains + 1 =>
          \A p \in RnnParamSet : \A idx \in RnnIdx(p) :
             rnnP[p][idx].kind = "num" =>
                /\ rnnP'[p][idx].kind = "num"
                /\ C7_Moved(p, idx) <= ClipBound * rnnCfg.learning_rate
                /\ C7_Moved(p, idx) >= -(ClipBound * rnnCfg.learning_rate)
      ]_vars

\* C7 amended: in every train call, every element whose gradient is not NaN
\* is moved by the learning rate times the gradient clipped to [-15, 15]:
\* by the gradient itself when it lies in the range, by 15 when it is above
\* (plus infinity included) and by -15 when it is below; so it changes by at
\* most 15 times the learning rate.
C7_ClipUnlessNaN ==
    [][ rnnLog'.trains = rnnLog.trains + 1 =>
          \A p \in RnnParamSet : \A idx \in RnnIdx(p) :
             LET g == rnnLog'.g[p][idx]
                 used == C7_Moved(p, idx)
                 lr == rnnCfg.learning_rate
             IN  g.kind # "nan" =>
                    /\ rnnP[p][idx].kind = "num" /\ rnnP'[p][idx].kind = "num"
                    /\ used <= ClipBound * lr /\ used >= -(ClipBound * lr)
                    /\ (g.kind = "num" /\ g.v <= ClipBound /\ g.v >= -ClipBound)
                          => used = lr * g.v
                    /\ ((g.kind = "num" /\ g.v > ClipBound) \/ g = Inf)
                          => used = lr * ClipBound
                    /\ ((g.kind = "num" /\ g.v < -ClipBound) \/ g = NInf)
                          => used = -(lr * ClipBound)
      ]_vars

\* A train call with learning rate 2 in which one element had gradient 40
\* and moved down by 30, and another had gradient minus infinity and moved up
\* by 30.
C7_Witness ==
    /\ rnnLog.op = "train" /\ rnnCfg.learning_rate = 2
    /\ \E p \in RnnParamSet : \E idx \in RnnIdx(p) :
          /\ rnnLog.g[p][idx] = Num(40)
          /\ rnnLog.before[p][idx].v - rnnP[p][idx].v = 30
    /\ \E p \in RnnParamSet : \E idx \in RnnIdx(p) :
          /\ rnnLog.g[p][idx] = NInf
          /\ rnnLog.before[p][idx].v - rnnP[p][idx].v = -30

\* ---- C11 ----------------------------------------------------------------
\* The name of the file at place k of the order load reads in, and the
\* parameter it is read into.
C11_File(k) == MLP_file(MlpFileOrder[k].kind, MlpFileOrder[k].i)
C11_Param(k) == MLP_param(MlpFileOrder[k].i, MlpFileOrder[k].kind)

\* C11: a load call ends with IOError exactly when a parameter file is
\* missing, and then, k being the place of the first missing file, every
\* parameter read before place k holds its file's array, every parameter
\* from place k on keeps the value it had before the call, and nothing else
\* (files, masks, random stream) has changed: there is no rollback and no
\* second attempt.
C11_LoadPartial ==
    [][ (mlpLog'.ops = mlpLog.ops + 1 /\ mlpLog'.op = "load") =>
          LET missing == {k \in DOMAIN MlpFileOrder : C11_File(k) \notin DOMAIN mlpFiles}
          IN  /\ (mlpLog'.err = "IOError") <=> (missing # {})
              /\ mlpLog'.err \in {"none", "IOError"}
              /\ missing # {} =>
                    \E k \in missing :
                       /\ \A m \in missing : k <= m
                       /\ \A m \in DOMAIN MlpFileOrder :
                             IF m < k
                             THEN mlpStore'[C11_Param(m)] = mlpFiles[C11_File(m)]
                             ELSE mlpStore'[C11_Param(m)] = mlpStore[C11_Param(m)]
              /\ UNCHANGED <<mlpFiles, mlpMask, mlpRng>>
      ]_vars

\* A load has ended with IOError after reading W_0.npy only: layer 0's W is
\* the array of the file and differs from the one before the call, while
\* layer 0's b and layer 1 are as before the call.
C11_Witness ==
    /\ mlpLog.op = "load" /\ mlpLog.err = "IOError"
    /\ DOMAIN mlpFiles = {MLP_file("W", 0)}
    /\ mlpStore[MLP_param(0, "W")] = mlpFiles[MLP_file("W", 0)]
    /\ mlpStore[MLP_param(0, "W")] # mlpLog.before[MLP_param(0, "W")]
    /\ mlpStore[MLP_param(0, "b")] = mlpLog.before[MLP_param(0, "b")]
    /\ mlpStore[MLP_param(1, "W")] = mlpLog.before[MLP_param(1, "W")]

\* ---- C12 ----------------------------------------------------------------
\* The output rows of layer i of a stack when every layer up to i works row
\* by row on its input, with no pooling and no dropout.
RECURSIVE C12_Rows(_, _, _)
C12_Rows(stack, i, x) ==
    LET in == IF i = 0 THEN x ELSE C12_Rows(stack, i - 1, x)
    IN  [r \in 1 .. Len(in) |->
            Activation(MlpLayers[i + 1].type, mlpMask[stack][i],
                       Affine(in[r], mlpStore[MLP_param(i, "W")],
                              mlpStore[MLP_param(i, "b")]))]

\* What the last layer of a stack computes when its input is the maximum
\* over the rows of the layer below, times scale.
C12_Last(stack, x, scale) ==
    LET pooled == MaxAxis0(C12_Rows(stack, NLayers - 2, x))
        i == NLayers - 1
    IN  Activation(MlpLayers[i + 1].type, mlpMask[stack][i],
                   Affine([j \in 1 .. Len(pooled) |-> pooled[j] * scale],
                          mlpStore[MLP_param(i, "W")], mlpStore[MLP_param(i, "b")]))

\* C12: the layers below the last work row by row in both stacks; the last
\* layer's input is the maximum over the rows.  In a train call that input
\* is multiplied by one Bernoulli draw over hidden_dropout (0 or
\* 1/hidden_dropout) after the pooling; in output and transform it is not
\* multiplied, and transform returns the maximum over the rows of the layer
\* below the last.  output with batch size 1 does the same for each row on
\* its own.
C12_PoolingAndDropout ==
    /\ [][ (mlpLog'.ops = mlpLog.ops + 1 /\ mlpLog'.op = "train") =>
             /\ mlpLog'.step.factor \in {0, HiddenDropoutInv}
             /\ mlpLog'.step.noisy =
                   <<C12_Last("noisy", mlpLog'.step.x, mlpLog'.step.factor)>>
         ]_vars
    /\ [][ (mlpLog'.ops = mlpLog.ops + 1 /\ mlpLog'.op = "output") =>
             LET x == mlpLog'.call.x
             IN  mlpLog'.call.result =
                    IF mlpLog'.call.bs = 0
                    THEN <<ArgMax(C12_Last("clean", x, 1))>>
                    ELSE [r \in 1 .. Len(x) |-> ArgMax(C12_Last("clean", <<x[r]>>, 1))]
         ]_vars
    /\ [][ (mlpLog'.ops = mlpLog.ops + 1 /\ mlpLog'.op = "transform") =>
             mlpLog'.call.result = MaxAxis0(C12_Rows("clean", NLayers - 2, mlpLog'.call.x))
         ]_vars

\* A second train call, on the two-row input, that drew the factor
\* 1/hidden_dropout and whose last layer computed something else than its
\* bias.
C12_Witness ==
    /\ mlpLog.op = "train" /\ mlpLog.trains = 2
    /\ mlpLog.step.x = <<MlpRow(-1), MlpRow(2)>>
    /\ mlpLog.step.factor = HiddenDropoutInv
    /\ mlpLog.step.noisy[1] # mlpLog.before[MLP_param(NLayers - 1, "b")]

\* ---- C13 ----------------------------------------------------------------
\* The element positions of parameter v and the element of an array at one.
C13_Elems(v) ==
    IF v[3] = "W" THEN (1 .. LayerNIn(v[2])) \X (1 .. LayerNOut(v[2]))
    ELSE {<<j>> : j \in 1 .. LayerNOut(v[2])}
C13_At(a, e) == IF Len(e) = 2 THEN a[e[1]][e[2]] ELSE a[e[1]]

\* C13: with momentum m non-zero a train step takes from every parameter
\* element the velocity held before the step and sets the velocity to
\* m * velocity + learning_rate * gradient, both from the values before the
\* step; the first train step changes no parameter, and the step after a
\* train step moves the parameter by m times the velocity before that
\* earlier step plus learning_rate times the earlier step's gradient.  With
\* momentum None or 0 the step moves every element by learning_rate *
\* gradient.
C13_Momentum ==
    [][ (mlpLog'.ops = mlpLog.ops + 1 /\ mlpLog'.op = "train") =>
          LET m == mlpCfg.momentum
              g == mlpLog'.step.g
          IN  \A v \in NoisyParams : \A e \in C13_Elems(v) :
                 IF m # 0
                 THEN LET mem == <<"memory", v[2], v[3]>>
                      IN  /\ C13_At(mlpStore'[v], e)
                                = C13_At(mlpStore[v], e) - C13_At(mlpStore[mem], e)
                          /\ C13_At(mlpStore'[mem], e)
                                = m * C13_At(mlpStore[mem], e)
                                  + MlpLearningRate * C13_At(g[v], e)
                          /\ mlpLog.trains = 0
                                => C13_At(mlpStore'[v], e) = C13_At(mlpStore[v], e)
                          /\ mlpLog.op = "train"
                                => C13_At(mlpStore'[v], e)
                                     = C13_At(mlpStore[v], e)
                                       - (m * C13_At(mlpLog.before[mem], e)
                                          + MlpLearningRate * C13_At(mlpLog.step.g[v], e))
                 ELSE C13_At(mlpStore'[v], e)
                         = C13_At(mlpStore[v], e) - MlpLearningRate * C13_At(g[v], e)
      ]_vars

\* With momentum 2, a first train step that changed no parameter and set
\* the velocity of layer 0's W, then a second train step that moved layer
\* 0's W by that velocity.
C13_Witness ==
    /\ mlpCfg.momentum = 2 /\ mlpLog.op = "train" /\ mlpLog.trains = 2 /\ mlpLog.ops = 2
    /\ mlpStore[MLP_param(0, "W")] # mlpLog.before[MLP_param(0, "W")]
    /\ mlpLog.before[<<"memory", 0, "W">>] # Full(0, "W", 0)

\* ---- C14 ----------------------------------------------------------------
\* The hidden state h is the one the step computes from row t of the input
\* and the hidden state prev: tanh(dot(x_t, W) + dot(prev, U) + b), with the
\* parameters as they are now.
C14_StepOf(h, t, prev) ==
    /\ h.op = "tanh" /\ Len(h.args) = 1
    /\ h.args[1].op = "add" /\ Len(h.args[1].args) = 3
    /\ LET a == h.args[1].args
       IN  /\ a[1].op = "dot" /\ a[1].args = <<Node("x", t, <<>>), Ref("W", rnnLog.trains)>>
           /\ a[2].op = "dot" /\ a[2].args = <<prev, Ref("U", rnnLog.trains)>>
           /\ a[3] = Ref("b", rnnLog.trains)

\* hs, the hidden states of steps 1 .. T, form the recurrence from h0.
C14_Recurrence(hs, T) ==
    /\ Len(hs) = T
    /\ \A t \in 1 .. T :
          C14_StepOf(hs[t], t, IF t = 1 THEN Node("h0", 0, rnnH0) ELSE hs[t - 1])

\* C14: h0 is all zeros at all times; a train call changes nothing but W, U,
\* V, b and c; an output or transform call changes no parameter and not h0;
\* and what transform and output return is computed from hidden states of
\* which the one of step t comes from row t and the hidden state of step
\* t-1, the one before step 1 being h0 (output from sigmoid(dot(h_t, V) + c)
\* of each of them).
C14_RecurrenceAndFrame ==
    /\ [](\A j \in DOMAIN rnnH0 : rnnH0[j] = Num(0))
    /\ [](Len(rnnH0) = RnnNHiddens)
    /\ [][ rnnLog'.trains = rnnLog.trains + 1 => UNCHANGED <<rnnH0, rnnCfg>> ]_vars
    /\ [][ rnnLog'.op \in {"output", "transform"} =>
             UNCHANGED <<rnnP, rnnH0, rnnCfg>> ]_vars
    /\ [](rnnLog.op = "transform" =>
             /\ rnnLog.result.op = "mean0"
             /\ C14_Recurrence(rnnLog.result.args, rnnLog.T))
    /\ [](rnnLog.op = "output" =>
             /\ rnnLog.result.op = "argmax"
             /\ rnnLog.result.args[1].op = "mean0"
             /\ LET ys == rnnLog.result.args[1].args
                IN  /\ Len(ys) = rnnLog.T
                    /\ \A t \in 1 .. rnnLog.T :
                          /\ ys[t].op = "sigmoid"
                          /\ ys[t].args[1].op = "add"
                          /\ ys[t].args[1].args[1].op = "dot"
                          /\ ys[t].args[1].args[1].args[2] = Ref("V", rnnLog.trains)
                          /\ ys[t].args[1].args[2] = Ref("c", rnnLog.trains)
                    /\ C14_Recurrence([t \in 1 .. rnnLog.T |-> ys[t].args[1].args[1].args[1]],
                                      rnnLog.T))

\* After two train calls, which have moved c, transform was called on a
\* sequence of two rows; the second hidden state is computed from the first.
C14_Witness ==
    /\ rnnLog.op = "transform" /\ rnnLog.T = 2 /\ rnnLog.trains = 2
    /\ rnnLog.result.args[2].args[1].args[2].args[1] = rnnLog.result.args[1]
    /\ rnnP["c"] # [idx \in RnnIdx("c") |-> Num(0)]

\* ---- C15 ----------------------------------------------------------------
\* C15: a fit call on N >= 1 samples has ended only after exactly
\* epochs * ceil(N / n_samples) training steps of that call.
C15_ExactSteps ==
    rbmCall.pc \in {"returned", "raised"} =>
        rbmLog.callSteps
            = rbmCfg.epochs
              * ((rbmCall.N + rbmCfg.n_samples - 1) \div rbmCfg.n_samples)

\* ---- C16 ----------------------------------------------------------------
\* C16: in a BinaryRBM the flipped dimension of the k-th training step the
\* object has made (k = 1, 2, ...) is (k - 1) mod n_visibles: 0 at the first
\* step, one more modulo n_visibles at every further step, always within
\* 0 .. n_visibles - 1, also from one fit call to the next; so n_visibles
\* steps in a row flip every dimension once.  The pseudo-likelihood of the
\* step is computed with exactly that column flipped.
C16_BitCounter ==
    /\ []((rbmKind = "binary" /\ rbmLog.steps >= 1) =>
            /\ rbmLog.last.bit \in 0 .. (NVisibles - 1)
            /\ rbmLog.last.bit = (rbmLog.steps - 1) % NVisibles
            /\ \A r \in 1 .. Len(rbmLog.last.v_pos) : \A j \in 1 .. NVisibles :
                  rbmLog.last.fe_xi_[r][j] =
                      IF j = rbmLog.last.bit + 1 THEN 1 - rbmLog.last.v_pos[r][j]
                      ELSE rbmLog.last.v_pos[r][j])
    /\ [][ (rbmKind = "binary" /\ rbmLog'.steps = rbmLog.steps + 1) =>
             rbmLog'.last.bit = IF rbmLog.steps = 0 THEN 0
                                ELSE IF rbmLog.last.bit = NVisibles - 1 THEN 0
                                ELSE rbmLog.last.bit + 1
         ]_vars

\* The fourth training step of a BinaryRBM with three visible units, made in
\* a second fit call: the counter has come back to dimension 0.
C16_Witness ==
    /\ rbmKind = "binary" /\ rbmLog.steps = 4 /\ rbmLog.fits = 2
    /\ rbmLog.last.bit = 0

\* ---- C17 ----------------------------------------------------------------
\* The samples of mini-batch m (from 0) of an epoch, as a set, and their
\* number: those at the places m, m + n_batches, m + 2 n_batches, ... of the
\* shuffled order.
C17_Places(m) ==
    {p \in 1 .. Len(rbmCall.inds) : (p - 1) % rbmCall.n_batches = m}
C17_Batch(m) == {rbmCall.inds[p] : p \in C17_Places(m)}

\* C17: in a fit call on N >= 1 samples the order is a shuffle of 0 .. N-1
\* fixed for the call, n_batches is ceil(N / n_samples), the mini-batches of
\* an epoch partition the samples, each is non-empty and has at most
\* n_samples samples, and the training step of mini-batch m is made on
\* exactly the samples of mini-batch m, in every epoch.
C17_BatchesPartition ==
    /\ [](rbmCall.pc \in {"loop", "epoch_end", "returned", "raised"} =>
            /\ rbmCall.N >= 1 /\ Len(rbmCall.inds) = rbmCall.N
            /\ rbmCall.n_batches * rbmCfg.n_samples >= rbmCall.N
            /\ (rbmCall.n_batches - 1) * rbmCfg.n_samples < rbmCall.N
            /\ {rbmCall.inds[p] : p \in 1 .. rbmCall.N} = 0 .. (rbmCall.N - 1)
            /\ \A i \in 0 .. (rbmCall.N - 1) :
                  Cardinality({m \in 0 .. (rbmCall.n_batches - 1) : i \in C17_Batch(m)}) = 1
            /\ \A m \in 0 .. (rbmCall.n_batches - 1) :
                  /\ Cardinality(C17_Places(m)) >= 1
                  /\ Cardinality(C17_Places(m)) <= rbmCfg.n_samples
                  /\ Cardinality(C17_Batch(m)) = Cardinality(C17_Places(m)))
    /\ [][ rbmLog'.steps = rbmLog.steps + 1 =>
             /\ rbmCall'.inds = rbmCall.inds /\ rbmCall'.n_batches = rbmCall.n_batches
             /\ rbmLog'.last.minibatch = rbmCall.minibatch
             /\ Len(rbmLog'.last.batch) = Cardinality(C17_Places(rbmCall.minibatch))
             /\ {rbmLog'.last.batch[r] : r \in 1 .. Len(rbmLog'.last.batch)}
                   = C17_Batch(rbmCall.minibatch)
             /\ rbmLog'.last.v_pos =
                   [r \in 1 .. Len(rbmLog'.last.batch) |-> DataRow(rbmLog'.last.batch[r])]
         ]_vars
    /\ [][ rbmCall.pc \in {"loop", "epoch_end"} =>
             rbmCall'.inds = rbmCall.inds /\ rbmCall'.n_batches = rbmCall.n_batches ]_vars

\* In the second epoch of a fit call on three samples with n_samples = 2, in
\* reversed order, the step of mini-batch 1 has been made on sample 1 alone.
C17_Witness ==
    /\ rbmCall.N = 3 /\ rbmCfg.n_samples = 2 /\ rbmCall.inds = <<2, 1, 0>>
    /\ rbmCall.epoch = 1 /\ rbmLog.last.minibatch = 1 /\ rbmLog.last.batch = <<1>>
    /\ rbmLog.callSteps = 4

\* ---- C18 ----------------------------------------------------------------
\* C18: the calls of the callback made by the running (or last) fit call
\* are, with verbose true and a callback given, one for each epoch whose
\* training steps have all been made, in order, the k-th with epoch number
\* k - 1 and made when exactly k * n_batches steps of the call were done; a
\* fit call that returns has made one for each of its epochs.  With verbose
\* false, or no callback given, there is none.  A training step makes no
\* callback call.
C18_CallbackPerEpoch ==
    /\ [](rbmCall.pc \in {"loop", "epoch_end", "returned", "raised"} =>
            IF rbmCall.verbose /\ rbmCall.callback
            THEN /\ Len(rbmLog.callbacks) = rbmCall.epoch
                 /\ \A k \in 1 .. Len(rbmLog.callbacks) :
                       /\ rbmLog.callbacks[k].epoch = k - 1
                       /\ rbmLog.callbacks[k].after = k * rbmCall.n_batches
                 /\ rbmCall.pc = "returned" => Len(rbmLog.callbacks) = rbmCfg.epochs
            ELSE rbmLog.callbacks = <<>>)
    /\ [][ rbmLog'.attempts = rbmLog.attempts + 1 =>
             rbmLog'.callbacks = rbmLog.callbacks ]_vars
    /\ [][ (rbmLog'.steps = rbmLog.steps + 1 /\ rbmCall.verbose /\ rbmCall.callback) =>
             /\ Len(rbmLog.callbacks) = rbmCall.epoch
             /\ rbmLog.callSteps >= rbmCall.epoch * rbmCall.n_batches
             /\ rbmLog.callSteps < (rbmCall.epoch + 1) * rbmCall.n_batches ]_vars

\* A verbose fit call of two epochs with a callback has returned after two
\* mini-batches in each epoch and two callback calls.
C18_Witness ==
    /\ rbmCall.pc = "returned" /\ rbmCall.verbose /\ rbmCall.callback
    /\ rbmCfg.epochs = 2 /\ rbmCall.n_batches = 2
    /\ rbmLog.callbacks = <<[epoch |-> 0, after |-> 2], [epoch |-> 1, after |-> 4]>>

\* ---- C19 ----------------------------------------------------------------
\* C19: a fit call initializes W (n_in x n_hiddens), c (n_hiddens), b (n_in)
\* and the fantasy particles (n_samples x n_hiddens) all four when W has no
\* column, and none of them otherwise.  So a fit call on a model that has
\* made a training step changes none of them before its first step, and a
\* model constructed with W supplied keeps, in every fit call and at every
\* training step, the W, c and b it was constructed with (c and b empty when
\* not supplied) and the empty 1 x 0 fantasy particles.
C19_InitOnlyWhenEmpty ==
    /\ [][ rbmLog'.fits = rbmLog.fits + 1 =>
             IF rbmW.shape[2] = 0
             THEN /\ rbmW'.shape = <<NVisibles, rbmCfg.n_hiddens>> /\ rbmW'.ver = rbmW.ver + 1
                  /\ rbmC'.shape = <<rbmCfg.n_hiddens>> /\ rbmC'.ver = rbmC.ver + 1
                  /\ rbmB'.shape = <<NVisibles>> /\ rbmB'.ver = rbmB.ver + 1
                  /\ rbmH'.shape = <<rbmCfg.n_samples, rbmCfg.n_hiddens>>
                  /\ rbmH'.ver = rbmH.ver + 1
                  /\ rbmLog.steps = 0
             ELSE UNCHANGED <<rbmW, rbmC, rbmB, rbmH>>
         ]_vars
    /\ [][ (rbmLog'.fits = rbmLog.fits + 1 /\ rbmLog.steps >= 1) =>
             UNCHANGED <<rbmW, rbmC, rbmB, rbmH>> ]_vars
    /\ [](rbmW.def.op = "given" =>
            /\ rbmW.ver = 0 /\ rbmC.ver = 0 /\ rbmB.ver = 0
            /\ rbmC.def.op = "empty" => rbmC.shape = <<0>>
            /\ rbmB.def.op = "empty" => rbmB.shape = <<0>>
            /\ rbmH.ver = 0 /\ rbmH.shape = <<1, 0>>
            /\ rbmLog.hInits = 0)

\* A model constructed with W alone has been given to fit twice; each call
\* has run its first training step with c and b empty and the fantasy
\* particles 1 x 0.
C19_Witness ==
    /\ rbmW.def.op = "given" /\ rbmC.shape = <<0>> /\ rbmB.shape = <<0>>
    /\ rbmH.shape = <<1, 0>>
    /\ rbmLog.fits = 2 /\ rbmLog.attempts = 2

\* ---- C20 ----------------------------------------------------------------
\* C20: the function compiled for _fit is compiled at the first training
\* step with the K and epsilon the object has then, and no assignment to K
\* or epsilon and no later step changes it; every training step runs the
\* chain for the K passes and scales the gradients of W, b and c by the
\* epsilon of that function, whatever K and epsilon the object holds when
\* the step is made.
C20_FirstCompileFixes ==
    /\ [][ rbmFitFn.compiled => rbmFitFn' = rbmFitFn ]_vars
    /\ [][ (~rbmFitFn.compiled /\ rbmFitFn'.compiled) =>
             /\ rbmLog'.attempts = rbmLog.attempts + 1
             /\ rbmFitFn'.K = rbmCfg.K /\ rbmFitFn'.epsilon = rbmCfg.epsilon ]_vars
    /\ [][ rbmLog'.steps = rbmLog.steps + 1 =>
             /\ rbmFitFn'.compiled
             /\ rbmH'.def = RBM_chain(rbmFitFn'.K, RBM_chain_start)
             /\ rbmLog'.last.K = rbmFitFn'.K
             /\ rbmW'.def.args[2] =
                  Node("scale", rbmFitFn'.epsilon, rbmW'.def.args[2].args)
             /\ rbmB'.def.args[2] =
                  Node("scale", rbmFitFn'.epsilon, rbmB'.def.args[2].args)
             /\ rbmC'.def.args[2] =
                  Node("scale", rbmFitFn'.epsilon, rbmC'.def.args[2].args) ]_vars

\* A step of the current pass over the data has just been made with the one
\* chain pass and the epsilon 1 of the compiled function, on an object whose
\* K and epsilon were both assigned 2 after an earlier step.
C20_Witness ==
    /\ rbmFitFn = [compiled |-> TRUE, K |-> 1, epsilon |-> 1]
    /\ rbmCfg.K = 2 /\ rbmCfg.epsilon = 2
    /\ rbmLog.steps >= 2 /\ rbmCall.pc = "loop" /\ rbmCall.minibatch >= 1
    /\ rbmLog.last.K = 1
    /\ rbmW.def.args[2].n = 1

\* ---- C21 ----------------------------------------------------------------
\* C21: the result of every output or transform call is the result that any
\* MLP constructed with the same layer specification and holding the same W
\* and b for every layer returns for that call, whatever sign masks that
\* other construction drew.
C21_ResultFromParamsOnly ==
    mlpLog.op \in {"output", "transform"} =>
        \A other \in MlpMaskDraws :
            MLP_call([kind |-> mlpLog.call.kind, x |-> mlpLog.call.x,
                      bs |-> mlpLog.call.bs], mlpStore, other, 1)
                = mlpLog.call.result

====
